---- MODULE Spec2Model ----
(***************************************************************************)
(* A model of video2ascii: the web job table and its background task, the  *)
(* parallel frame converter, the shell-script exporter, the HTTP export    *)
(* API's authorization, subtitle generation, settings resolution, and the  *)
(* video exporter's frame geometry and encoder selection.                  *)
(*                                                                         *)
(* Python's None is the empty tuple <<>> and a present value v is <<v>>,   *)
(* so that an Optional field compares cleanly with either.                 *)
(***************************************************************************)
EXTENDS Integers, Sequences, FiniteSets, TLC

VARIABLES
    jobs,        \* web/app.py `jobs`: job id -> job dict
    tasks,       \* job id -> position of its _process_video_async task
    workDirs,    \* job ids whose work directory exists on disk
    resp         \* the HTTP response the last step sent (NoResponse when it sent none)

webVars == <<jobs, tasks, workDirs, resp>>

VARIABLES
    frame_paths, \* converter.convert_all: its argument
    poolDone,    \* indices of args_list whose convert_frame call has finished
    results,     \* what pool.map returned, then sorted; None before
    convOut      \* what convert_all returned; None before

convVars == <<frame_paths, poolDone, results, convOut>>

VARIABLES
    expArgs,     \* exporter.export: frames, fps, crt
    template,    \* the text of player_template.sh
    gzipBuild,   \* what gzip.compress puts in the member header besides the magic
    script,      \* the output file, a text; None before it is opened
    expPc        \* where export is: "open", "frame" (with the frame's index), "chmod", "done"

expVars == <<expArgs, template, gzipBuild, script, expPc>>

VARIABLES
    apiEnv,      \* services/mp4_api.py: the environment variables it reads
    apiNow,      \* time.time(), in seconds
    rateState,   \* _RATE_STATE
    apiDirs,     \* how many directories made by _run_export exist
    apiResp      \* the request last handled and how it ended

apiVars == <<apiEnv, apiNow, rateState, apiDirs, apiResp>>

VARIABLES
    srtIn,       \* subtitle.generate_srt: its arguments
    srtPc,       \* where generate_srt is: "probe", "extract", "whisper", "done"
    srtCalls,    \* the strategies called so far, in call order
    srtLocals,   \* what each call ran and returned
    srtOut       \* what generate_srt returned; None before

srtVars == <<srtIn, srtPc, srtCalls, srtLocals, srtOut>>

VARIABLES
    setForm      \* the form a client posts to /api/convert in the settings specifications

setVars == <<setForm>>

VARIABLES
    cliArgv,     \* cli: the command line
    cliPc,       \* "start", "parsed", "exit" (parser.error), "done"
    cliArgs,     \* the namespace parse_args returned; None before
    cliOut       \* how main ended

cliVars == <<cliArgv, cliPc, cliArgs, cliOut>>

VARIABLES
    rndIn,       \* mp4_exporter.render_ascii_frame: the frame, the font, the target width
    rndPc,       \* "measure", "scale", "even", "limit", "save", "done", "raised"
    rndDim,      \* its locals: base and current dimensions, character cell, font size
    rndImage     \* the size of the image written; None before

rndVars == <<rndIn, rndPc, rndDim, rndImage>>

VARIABLES
    mp4Args,     \* mp4_exporter.export_mp4: its arguments
    mp4Pc,       \* "start", "render" (with the frame's index), "encode", "cleanup", "done", "raised"
    mp4Dir,      \* how many images the render directory holds; None when it does not exist
    mp4Cmd,      \* the ffmpeg command run; None before
    mp4Err       \* the exception that left export_mp4, "" for none

mp4Vars == <<mp4Args, mp4Pc, mp4Dir, mp4Cmd, mp4Err>>

VARIABLES
    strPc,       \* a stream of GET /api/jobs/{id}/stream: "poll", "emitted", "sleep", "closed", "rejected"
    strJob,      \* the job id it was opened for
    strLocal,    \* event_generator's locals last_status and status
    strOut       \* the event it sent last, and how many events with a final status it sent

strVars == <<strPc, strJob, strLocal, strOut>>

VARIABLES
    rlLimit,     \* services/mp4_api.py _RATE_LIMIT, read when the module is imported
    rlThreads,   \* the worker threads inside _check_rate_limit: position and locals
    rlPassed     \* time.time() of every request that passed _check_rate_limit, in order

rlVars == <<rlLimit, rlThreads, rlPassed>>

VARIABLES
    plArgs,      \* player.TerminalPlayer: the frames and the arguments of play
    plPc,        \* where play is: the statement, the frame index, the pass over the frames
    plFlag,      \* self.interrupted
    plWay,       \* how play is being left: "" (running), "return", or the exception
    plOut        \* what was written to the terminal, and the sleeps, in order

plVars == <<plArgs, plPc, plFlag, plWay, plOut>>

VARIABLES
    jobCap       \* how many jobs the clients of one run create at most

capVars == <<jobCap>>

VARIABLES
    fnIn,        \* a function called on its own: its name and arguments
    fnPc,        \* "call" before it runs, "done" after
    fnOut        \* what it returned or raised; None before

fnVars == <<fnIn, fnPc, fnOut>>

vars == <<webVars, convVars, expVars, apiVars, srtVars, setVars, cliVars, rndVars, mp4Vars,
          strVars, rlVars, plVars, capVars, fnVars>>

\* a step of one component leaves every other component as it is
WebAlone ==
    UNCHANGED <<convVars, expVars, apiVars, srtVars, setVars, cliVars, rndVars, mp4Vars,
                strVars, rlVars, plVars, capVars, fnVars>>
ConvAlone ==
    UNCHANGED <<webVars, expVars, apiVars, srtVars, setVars, cliVars, rndVars, mp4Vars,
                strVars, rlVars, plVars, capVars, fnVars>>
ExpAlone ==
    UNCHANGED <<webVars, convVars, apiVars, srtVars, setVars, cliVars, rndVars, mp4Vars,
                strVars, rlVars, plVars, capVars, fnVars>>
ApiAlone ==
    UNCHANGED <<webVars, convVars, expVars, srtVars, setVars, cliVars, rndVars, mp4Vars,
                strVars, rlVars, plVars, capVars, fnVars>>
SrtAlone ==
    UNCHANGED <<webVars, convVars, expVars, apiVars, setVars, cliVars, rndVars, mp4Vars,
                strVars, rlVars, plVars, capVars, fnVars>>
CliAlone ==
    UNCHANGED <<webVars, convVars, expVars, apiVars, srtVars, setVars, rndVars, mp4Vars,
                strVars, rlVars, plVars, capVars, fnVars>>
RndAlone ==
    UNCHANGED <<webVars, convVars, expVars, apiVars, srtVars, setVars, cliVars, mp4Vars,
                strVars, rlVars, plVars, capVars, fnVars>>
Mp4Alone ==
    UNCHANGED <<webVars, convVars, expVars, apiVars, srtVars, setVars, cliVars, rndVars,
                strVars, rlVars, plVars, capVars, fnVars>>
FnAlone ==
    UNCHANGED <<webVars, convVars, expVars, apiVars, srtVars, setVars, cliVars, rndVars,
                mp4Vars, strVars, rlVars, plVars, capVars>>
StrAlone ==
    UNCHANGED <<webVars, convVars, expVars, apiVars, srtVars, setVars,
                cliVars, rndVars, mp4Vars, rlVars, plVars, capVars, fnVars>>
None == <<>>
Some(v) == <<v>>
IsNone(o) == o = <<>>
Get(o) == o[1]

Min(a, b) == IF a <= b THEN a ELSE b
Max(a, b) == IF a >= b THEN a ELSE b

(***************************************************************************)
(* Presets (presets.py).  dict.get(key, default) on a preset.              *)
(***************************************************************************)
PresetNames == {"classic", "crt", "c64", "sketch", "minimal"}

PRESETS ==
    [classic |-> [width |-> 160, fps |-> 12, charset |-> "classic",
                  color |-> FALSE, invert |-> FALSE, edge |-> FALSE],
     crt     |-> [width |-> 80, fps |-> 12, charset |-> "classic",
                  color |-> TRUE, invert |-> FALSE, edge |-> FALSE,
                  color_scheme |-> "CRT_GREEN", crt_filter |-> TRUE],
     c64     |-> [width |-> 40, fps |-> 12, charset |-> "petscii",
                  color |-> TRUE, invert |-> FALSE, edge |-> FALSE,
                  color_scheme |-> "C64_BLUE", crt_filter |-> TRUE],
     sketch  |-> [width |-> 160, fps |-> 12, charset |-> "classic",
                  color |-> FALSE, invert |-> TRUE, edge |-> TRUE],
     minimal |-> [width |-> 120, fps |-> 10, charset |-> "simple",
                  color |-> FALSE, invert |-> FALSE, edge |-> FALSE]]

\* PRESETS.get(name, {}) if name else {}  -- the empty dict is the empty record
PresetDef(name) == IF name # "" /\ name \in PresetNames THEN PRESETS[name] ELSE <<>>

\* preset_def.get(key, default)
DictGet(d, key, default) == IF key \in DOMAIN d THEN d[key] ELSE default

\* preset_def.get("color_scheme"): an Optional
DictGetOpt(d, key) == IF key \in DOMAIN d THEN Some(d[key]) ELSE None

\* converter.CHARSETS keys
CHARSETS == {"classic", "blocks", "braille", "dense", "simple", "petscii"}

(***************************************************************************)
(* converter.convert_all: one convert_frame call per path on a process     *)
(* pool, the results put in frame order.                                   *)
(***************************************************************************)
MaxPaths == 3      \* frame paths passed to convert_all
MaxFrameNo == 3    \* highest frame number in a file name

\* a frame path: its directory and its stem split at "_" (frame_000002 is
\* <<"frame", 2>>); two directories may each hold a frame of the same number
FramePaths == [dir : {"frames", "other"}, stem : {<<"frame", n>> : n \in 1..MaxFrameNo}]

\* image_to_ascii of the image at a path: the text is a function of the file
AsciiOf(path) == [art_of |-> path]

\* convert_frame, lines 272-287: (frame_num, ascii_art)
ConvertFrame(path) == <<path.stem[2], AsciiOf(path)>>

\* list.sort(key=lambda x: x[0]): a stable sort, here by insertion
RECURSIVE InsertByKey(_, _)
InsertByKey(sorted, x) ==
    IF sorted = <<>> THEN <<x>>
    ELSE IF sorted[Len(sorted)][1] <= x[1] THEN Append(sorted, x)
    ELSE Append(InsertByKey(SubSeq(sorted, 1, Len(sorted) - 1), x), sorted[Len(sorted)])

RECURSIVE SortByFrameNumFrom(_, _)
SortByFrameNumFrom(sorted, rest) ==
    IF rest = <<>> THEN sorted
    ELSE SortByFrameNumFrom(InsertByKey(sorted, Head(rest)), Tail(rest))

Unsorted(rs) == rs

SortByFrameNum(rs) == SortByFrameNumFrom(<<>>, rs)

SeqsUpTo(S, n) == UNION {[1..k -> S] : k \in 0..n}

Range(f) == {f[i] : i \in DOMAIN f}

ConvInit ==
    /\ frame_paths \in SeqsUpTo(FramePaths, MaxPaths)
    /\ poolDone = {}
    /\ results = None
    /\ convOut = None

ConvIdle ==
    /\ frame_paths = <<>>
    /\ poolDone = {}
    /\ results = None
    /\ convOut = None

\* a pool worker finishes the convert_frame call of args_list[i]
WorkerFinish(i) ==
    /\ IsNone(results)
    /\ i \in (1..Len(frame_paths)) \ poolDone
    /\ poolDone' = poolDone \cup {i}
    /\ UNCHANGED <<frame_paths, results, convOut>>
    /\ ConvAlone

\* lines 336-340: pool.map returns the results in the order of args_list once
\* every call has finished; the list is then sorted by frame number
PoolMapReturns ==
    /\ IsNone(results)
    /\ poolDone = 1..Len(frame_paths)
    /\ results' = Some(SortByFrameNum([i \in 1..Len(frame_paths) |->
                                          ConvertFrame(frame_paths[i])]))
    /\ UNCHANGED <<frame_paths, poolDone, convOut>>
    /\ ConvAlone

\* line 342
ConvertAllReturns ==
    /\ ~IsNone(results) /\ IsNone(convOut)
    /\ convOut' = Some([i \in 1..Len(Get(results)) |-> Get(results)[i][2]])
    /\ UNCHANGED <<frame_paths, poolDone, results>>
    /\ ConvAlone

ConvNext ==
    \/ \E i \in 1..MaxPaths : WorkerFinish(i)
    \/ PoolMapReturns
    \/ ConvertAllReturns

(***************************************************************************)
(* exporter.export: the frames, gzip-compressed and base64-encoded, written *)
(* after the player template.  A str is the sequence of its code points, a  *)
(* bytes object the sequence of its bytes, and the text of a file the       *)
(* sequence of the pieces written to it, "\n" ending a line.                *)
(***************************************************************************)
MaxExportFrames == 2    \* frames passed to export

RECURSIVE Flatten(_)
Flatten(ss) == IF ss = <<>> THEN <<>> ELSE Head(ss) \o Flatten(Tail(ss))

\* the value standing for a raised exception: no byte and no code point is negative
Failure == <<-1>>

\* str.encode("utf-8") of one code point (no surrogate among the frames' characters)
Utf8Char(c) ==
    IF c < 128 THEN <<c>>
    ELSE IF c < 2048 THEN <<192 + (c \div 64), 128 + (c % 64)>>
    ELSE IF c < 65536 THEN <<224 + (c \div 4096), 128 + ((c \div 64) % 64), 128 + (c % 64)>>
    ELSE <<240 + (c \div 262144), 128 + ((c \div 4096) % 64), 128 + ((c \div 64) % 64),
          128 + (c % 64)>>

Utf8Encode(text) == Flatten([i \in 1..Len(text) |-> Utf8Char(text[i])])

\* bytes.decode("utf-8")
RECURSIVE Utf8Decode(_)
Utf8Decode(bytes) ==
    IF bytes = <<>> THEN <<>>
    ELSE LET b == bytes[1]
             n == IF b < 128 THEN 1 ELSE IF b \in 194..223 THEN 2
                  ELSE IF b \in 224..239 THEN 3 ELSE IF b \in 240..244 THEN 4 ELSE 0
         IN IF n = 0 \/ Len(bytes) < n \/ \E k \in 2..n : bytes[k] \notin 128..191
            THEN Failure
            ELSE LET c == CASE n = 1 -> b
                            [] n = 2 -> (b - 192) * 64 + (bytes[2] - 128)
                            [] n = 3 -> (b - 224) * 4096 + (bytes[2] - 128) * 64
                                        + (bytes[3] - 128)
                            [] n = 4 -> (b - 240) * 262144 + (bytes[2] - 128) * 4096
                                        + (bytes[3] - 128) * 64 + (bytes[4] - 128)
                     rest == Utf8Decode(SubSeq(bytes, n + 1, Len(bytes)))
                 IN IF rest = Failure
                       \/ (n = 2 /\ c < 128) \/ (n = 3 /\ c < 2048) \/ (n = 4 /\ c < 65536)
                    THEN Failure ELSE <<c>> \o rest

\* a 32-bit word is its four bytes, lowest first
RECURSIVE XorBits(_, _, _)
XorBits(a, b, n) ==
    IF n = 0 THEN 0 ELSE ((a + b) % 2) + 2 * XorBits(a \div 2, b \div 2, n - 1)

XorWord(x, y) ==
    <<XorBits(x[1], y[1], 8), XorBits(x[2], y[2], 8),
      XorBits(x[3], y[3], 8), XorBits(x[4], y[4], 8)>>

ShiftRightWord(x) ==
    <<(x[1] \div 2) + 128 * (x[2] % 2), (x[2] \div 2) + 128 * (x[3] % 2),
      (x[3] \div 2) + 128 * (x[4] % 2), x[4] \div 2>>

Le32(n) == <<n % 256, (n \div 256) % 256, (n \div 65536) % 256, n \div 16777216>>

\* CRC-32 of RFC 1952, polynomial 0xEDB88320, bit by bit
RECURSIVE Crc32Bits(_, _)
Crc32Bits(w, k) ==
    IF k = 0 THEN w
    ELSE IF w[1] % 2 = 1
         THEN Crc32Bits(XorWord(ShiftRightWord(w), <<32, 131, 184, 237>>), k - 1)
         ELSE Crc32Bits(ShiftRightWord(w), k - 1)

\* the register after the first n bytes of data
RECURSIVE Crc32Upto(_, _)
Crc32Upto(data, n) ==
    IF n = 0 THEN <<255, 255, 255, 255>>
    ELSE Crc32Bits(XorWord(Crc32Upto(data, n - 1), <<data[n], 0, 0, 0>>), 8)

Crc32(data) == XorWord(Crc32Upto(data, Len(data)), <<255, 255, 255, 255>>)

\* the deflate stream, written as one final stored block (RFC 1951, 3.2.4):
\* which block type and code zlib picks changes what is written, not what inflate returns
Deflate(data) ==
    <<1, Len(data) % 256, Len(data) \div 256,
      255 - (Len(data) % 256), 255 - (Len(data) \div 256)>> \o data

\* gzip.compress(data): a member of RFC 1952 (magic, CM = 8, FLG = 0, MTIME, XFL, OS,
\* the deflate stream, CRC32, ISIZE)
GzipCompress(data, build) ==
    <<31, 139, 8, 0>> \o build.mtime \o <<build.xfl, build.os>>
        \o Deflate(data) \o Crc32(data) \o Le32(Len(data))

\* gzip.decompress(member)
GzipDecompress(member) ==
    IF member = Failure \/ Len(member) < 23 THEN Failure
    ELSE LET n == member[12] + 256 * member[13]
             data == SubSeq(member, 16, 15 + n)
         IN IF /\ SubSeq(member, 1, 4) = <<31, 139, 8, 0>>
               /\ member[11] = 1
               /\ member[14] = 255 - member[12] /\ member[15] = 255 - member[13]
               /\ Len(member) = 23 + n
               /\ SubSeq(member, 16 + n, 19 + n) = Crc32(data)
               /\ SubSeq(member, 20 + n, 23 + n) = Le32(n)
            THEN data ELSE Failure

Base64Alphabet ==
    <<"A", "B", "C", "D", "E", "F", "G", "H", "I", "J", "K", "L", "M", "N", "O", "P",
      "Q", "R", "S", "T", "U", "V", "W", "X", "Y", "Z", "a", "b", "c", "d", "e", "f",
      "g", "h", "i", "j", "k", "l", "m", "n", "o", "p", "q", "r", "s", "t", "u", "v",
      "w", "x", "y", "z", "0", "1", "2", "3", "4", "5", "6", "7", "8", "9", "+", "/">>

B64(v) == Base64Alphabet[v + 1]

\* a mutation of Base64Encode: the "=" padding left out
RECURSIVE Base64EncodeUnpadded(_)
Base64EncodeUnpadded(bytes) ==
    IF bytes = <<>> THEN <<>>
    ELSE IF Len(bytes) = 1 THEN
        <<B64(bytes[1] \div 4), B64((bytes[1] % 4) * 16)>>
    ELSE IF Len(bytes) = 2 THEN
        <<B64(bytes[1] \div 4), B64((bytes[1] % 4) * 16 + (bytes[2] \div 16)),
          B64((bytes[2] % 16) * 4)>>
    ELSE <<B64(bytes[1] \div 4), B64((bytes[1] % 4) * 16 + (bytes[2] \div 16)),
           B64((bytes[2] % 16) * 4 + (bytes[3] \div 64)), B64(bytes[3] % 64)>>
         \o Base64EncodeUnpadded(SubSeq(bytes, 4, Len(bytes)))

\* base64.b64encode(bytes).decode("ascii"): a str of characters of the alphabet and "="
RECURSIVE Base64Encode(_)
Base64Encode(bytes) ==
    IF bytes = <<>> THEN <<>>
    ELSE IF Len(bytes) = 1 THEN
        <<B64(bytes[1] \div 4), B64((bytes[1] % 4) * 16), "=", "=">>
    ELSE IF Len(bytes) = 2 THEN
        <<B64(bytes[1] \div 4), B64((bytes[1] % 4) * 16 + (bytes[2] \div 16)),
          B64((bytes[2] % 16) * 4), "=">>
    ELSE <<B64(bytes[1] \div 4), B64((bytes[1] % 4) * 16 + (bytes[2] \div 16)),
           B64((bytes[2] % 16) * 4 + (bytes[3] \div 64)), B64(bytes[3] % 64)>>
         \o Base64Encode(SubSeq(bytes, 4, Len(bytes)))

B64Value(ch) == CHOOSE v \in 0..63 : B64(v) = ch

\* base64.b64decode(line): binascii.Error for a length that is no multiple of four
RECURSIVE Base64Decode(_)
Base64Decode(chars) ==
    IF chars = <<>> THEN <<>>
    ELSE IF Len(chars) < 4 \/ \E k \in 1..2 : chars[k] \notin Range(Base64Alphabet)
    THEN Failure
    ELSE LET a == B64Value(chars[1])
             b == B64Value(chars[2])
             one == <<a * 4 + (b \div 16)>>
         IN IF chars[3] = "="
            THEN IF Len(chars) = 4 /\ chars[4] = "=" THEN one ELSE Failure
            ELSE IF chars[3] \notin Range(Base64Alphabet) THEN Failure
            ELSE LET c == B64Value(chars[3])
                     two == one \o <<(b % 16) * 16 + (c \div 4)>>
                 IN IF chars[4] = "="
                    THEN IF Len(chars) = 4 THEN two ELSE Failure
                    ELSE IF chars[4] \notin Range(Base64Alphabet) THEN Failure
                    ELSE LET rest == Base64Decode(SubSeq(chars, 5, Len(chars)))
                         IN IF rest = Failure THEN Failure
                            ELSE two \o <<(c % 4) * 64 + B64Value(chars[4])>> \o rest

\* str(n) of a number n >= 0, as in an f-string
RECURSIVE Decimal(_)
Decimal(n) ==
    LET digit == <<"0", "1", "2", "3", "4", "5", "6", "7", "8", "9">>[(n % 10) + 1]
    IN IF n < 10 THEN <<digit>> ELSE Append(Decimal(n \div 10), digit)

\* str.replace on the template: the placeholder is one piece of the text
ReplacePiece(text, old, new) ==
    Flatten([i \in 1..Len(text) |-> IF text[i] = old THEN new ELSE <<text[i]>>])

\* lines 29-31
ExportHeader(tpl, args) ==
    ReplacePiece(
        ReplacePiece(
            ReplacePiece(tpl, "ORIG_FPS=12", <<"ORIG_FPS=">> \o Decimal(args.fps)),
            "ORIG_CRT=0", <<"ORIG_CRT=">> \o Decimal(IF args.crt THEN 1 ELSE 0)),
        "TOTAL_FRAMES=0", <<"TOTAL_FRAMES=">> \o Decimal(Len(args.frames)))

\* lines 40-47: what one turn of the loop writes
FrameRecord(frame, build) ==
    <<"---FRAME---", "\n">> \o Base64Encode(GzipCompress(Utf8Encode(frame), build)) \o <<"\n">>

\* player_template.sh is not among the sources: three texts it may be, one ending
\* without a newline and one that shows the frame marker on a line of its own
PlayerTemplates ==
    { <<"#!/bin/bash", "\n", "ORIG_FPS=12", "\n", "ORIG_CRT=0", "\n",
        "TOTAL_FRAMES=0", "\n", "exit 0", "\n">>,
      <<"#!/bin/bash", "\n", "ORIG_FPS=12", "\n", "ORIG_CRT=0", "\n",
        "TOTAL_FRAMES=0", "\n", "exit 0">>,
      <<"#!/bin/bash", "\n", "ORIG_FPS=12", "\n", "ORIG_CRT=0", "\n",
        "TOTAL_FRAMES=0", "\n", "# frames follow, each after a line", "\n",
        "---FRAME---", "\n", "exit 0", "\n">> }

\* frame texts: empty, one character, lines, a two-byte and a three-byte character
FrameTexts == { <<>>, <<35>>, <<35, 10, 64>>, <<233, 10>>, <<10495>>, <<32, 10495, 10, 10>> }

\* MTIME, XFL and OS of the member header vary with the clock and the build of zlib
GzipBuilds ==
    { [mtime |-> <<0, 0, 0, 0>>, xfl |-> 2, os |-> 255],
      [mtime |-> <<128, 150, 9, 105>>, xfl |-> 2, os |-> 3] }

At(stage, i) == [stage |-> stage, i |-> i]

ExpInit ==
    /\ expArgs \in [frames : SeqsUpTo(FrameTexts, MaxExportFrames),
                    fps : {12, 30}, crt : BOOLEAN]
    /\ template \in PlayerTemplates
    /\ gzipBuild \in GzipBuilds
    /\ script = None
    /\ expPc = At("open", 0)

ExpIdle ==
    /\ expArgs = [frames |-> <<>>, fps |-> 12, crt |-> FALSE]
    /\ template = <<>>
    /\ gzipBuild = [mtime |-> <<0, 0, 0, 0>>, xfl |-> 2, os |-> 255]
    /\ script = None
    /\ expPc = At("done", 0)

\* lines 24-36
ExportOpen ==
    /\ expPc.stage = "open"
    /\ script' = Some(ExportHeader(template, expArgs) \o <<"\n">>)
    /\ expPc' = IF expArgs.frames = <<>> THEN At("chmod", 0) ELSE At("frame", 1)
    /\ UNCHANGED <<expArgs, template, gzipBuild>>
    /\ ExpAlone

\* lines 39-47
ExportWriteFrame ==
    /\ expPc.stage = "frame"
    /\ LET i == expPc.i IN
       /\ script' = Some(Get(script) \o FrameRecord(expArgs.frames[i], gzipBuild))
       /\ expPc' = IF i = Len(expArgs.frames) THEN At("chmod", 0) ELSE At("frame", i + 1)
    /\ UNCHANGED <<expArgs, template, gzipBuild>>
    /\ ExpAlone

\* lines 50-59
ExportChmod ==
    /\ expPc.stage = "chmod"
    /\ expPc' = At("done", 0)
    /\ UNCHANGED <<expArgs, template, gzipBuild, script>>
    /\ ExpAlone

ExpNext == ExportOpen \/ ExportWriteFrame \/ ExportChmod

(***************************************************************************)
(* web/app.py: the job table, POST /api/convert and the background task.   *)
(***************************************************************************)
MaxJobs == 1      \* jobs created in one run
MaxFrames == 2    \* frames ffmpeg extracts from one upload

JobIds == 1..jobCap
\* ids a client may ask for: 0 is an id that never names a job
RequestIds == 0..jobCap

PENDING == "pending"
EXTRACTING == "extracting"
CONVERTING == "converting"
COMPLETED == "completed"
ERROR == "error"

WebDefaultFromCrtFilter(form) ==
    IF ~IsNone(form.crt) THEN Get(form.crt)
    ELSE DictGet(PresetDef(form.preset), "crt_filter", FALSE)

\* convert_video, lines 161-171: settings resolved from the form and the preset
WebDefaultCrtPlayback(form) ==
    IF ~IsNone(form.crt) THEN Get(form.crt) ELSE form.preset = "crt"

WebResolve(form) ==
    LET preset_def == PresetDef(form.preset) IN
    [width   |-> IF ~IsNone(form.width) THEN Get(form.width)
                 ELSE DictGet(preset_def, "width", 160),
     fps     |-> IF ~IsNone(form.fps) THEN Get(form.fps)
                 ELSE DictGet(preset_def, "fps", 12),
     color   |-> IF ~IsNone(form.color) THEN Get(form.color)
                 ELSE DictGet(preset_def, "color", FALSE),
     invert  |-> IF ~IsNone(form.invert) THEN Get(form.invert)
                 ELSE DictGet(preset_def, "invert", FALSE),
     edge    |-> IF ~IsNone(form.edge) THEN Get(form.edge)
                 ELSE DictGet(preset_def, "edge", FALSE),
     charset |-> IF ~IsNone(form.charset) THEN Get(form.charset)
                 ELSE DictGet(preset_def, "charset", "classic"),
     color_scheme |-> DictGetOpt(preset_def, "color_scheme"),
     crt_filter |-> IF ~IsNone(form.crt) THEN Get(form.crt)
                    ELSE DictGet(preset_def, "crt_filter", FALSE),
     default_crt_playback |-> WebDefaultCrtPlayback(form)]

ConvertValidateNoUpperFps(r) ==
    IF r.width < 20 \/ r.width > 320 THEN Some("width must be between 20 and 320")
    ELSE IF r.fps < 1 THEN Some("fps must be between 1 and 30")
    ELSE IF r.charset \notin CHARSETS /\ Len(r.charset) < 2
         THEN Some("charset must be one of CHARSETS or a custom string")
    ELSE None

\* convert_video, lines 180-185: the detail of the 400 raised, or None
ConvertValidate(r) ==
    IF r.width < 20 \/ r.width > 320 THEN Some("width must be between 20 and 320")
    ELSE IF r.fps < 1 \/ r.fps > 30 THEN Some("fps must be between 1 and 30")
    ELSE IF r.charset \notin CHARSETS /\ Len(r.charset) < 2
         THEN Some("charset must be one of CHARSETS or a custom string")
    ELSE None

Response(ep, id, arg, code, detail, body) ==
    [ep |-> ep, id |-> id, arg |-> arg, code |-> code, detail |-> detail, body |-> body]

NoResponse == Response("", 0, <<>>, 0, "", <<>>)

\* convert_video, lines 202-227
NewJob(form, r) ==
    [status |-> PENDING,
     params |-> [width |-> r.width, fps |-> r.fps, color |-> r.color,
                 invert |-> r.invert, edge |-> r.edge, charset |-> r.charset,
                 crt_filter |-> r.crt_filter,
                 default_crt_playback |-> r.default_crt_playback,
                 subtitle |-> form.subtitle,
                 preset |-> IF form.preset # "" THEN Some(form.preset) ELSE None],
     color_scheme |-> r.color_scheme,
     frames |-> None,
     subtitle_segments |-> None,
     subtitle_srt_path |-> None,
     error |-> None,
     progress |-> [stage |-> "pending", current |-> 0, total |-> 0]]

\* uuid.uuid4(): an id never handed out before; ids are numbered in creation
\* order, and every id handed out has a task
FreshId == Cardinality(DOMAIN tasks) + 1

\* POST /api/convert (convert_video); ffmpeg: whether check_ffmpeg finds the binary
ConvertVideo(form, ffmpeg) ==
    /\ LET r == WebResolve(form)
           bad == ConvertValidate(r)
           id == FreshId
       IN
       IF ~IsNone(bad) THEN
           /\ resp' = Response("convert", 0, <<form>>, 400, Get(bad), <<>>)
           /\ UNCHANGED <<jobs, tasks, workDirs>>
       ELSE IF ~ffmpeg THEN
           /\ resp' = Response("convert", 0, <<form>>, 500, "ffmpeg not found", <<>>)
           /\ UNCHANGED <<jobs, tasks, workDirs>>
       ELSE
           /\ id \in JobIds
           /\ workDirs' = workDirs \cup {id}
           /\ jobs' = [j \in DOMAIN jobs \cup {id} |-> IF j = id THEN NewJob(form, r) ELSE jobs[j]]
           /\ tasks' = [j \in DOMAIN tasks \cup {id} |->
                           IF j = id THEN [pc |-> "scheduled", subtitle |-> form.subtitle,
                                           frame_paths |-> 0, frames |-> <<>>]
                           ELSE tasks[j]]
           /\ resp' = Response("convert", id, <<form>>, 200, "", <<>>)
    /\ WebAlone

(***************************************************************************)
(* _process_video_async.  The coroutine runs on the event loop; it yields  *)
(* only at its three awaits, so each segment between awaits is one step.   *)
(* jobs[job_id] raises KeyError when the job was deleted; inside the       *)
(* except handler (lines 115-119) the same lookup raises again and the     *)
(* task ends with that exception.                                         *)
(***************************************************************************)
SetTask(id, pc, frames) ==
    tasks' = [tasks EXCEPT ![id] = [@ EXCEPT !.pc = pc, !.frames = frames]]

\* lines 115-119 without line 119
TaskFailWithoutMessage(id, msg) ==
    IF id \in DOMAIN jobs THEN
        /\ jobs' = [jobs EXCEPT ![id] = [@ EXCEPT !.status = ERROR]]
        /\ SetTask(id, "done", tasks[id].frames)
    ELSE
        /\ SetTask(id, "crashed", tasks[id].frames)
        /\ UNCHANGED jobs

\* lines 115-119
TaskFail(id, msg) ==
    IF id \in DOMAIN jobs THEN
        /\ jobs' = [jobs EXCEPT ![id] = [@ EXCEPT !.status = ERROR, !.error = Some(msg)]]
        /\ SetTask(id, "done", tasks[id].frames)
    ELSE
        /\ SetTask(id, "crashed", tasks[id].frames)
        /\ UNCHANGED jobs

\* lines 109-113 without line 110
TaskCompleteWithoutFrames(id, frames, segments, srt) ==
    IF id \in DOMAIN jobs THEN
        /\ jobs' = [jobs EXCEPT ![id] =
                      [@ EXCEPT !.status = COMPLETED,
                                !.progress = [stage |-> "completed",
                                              current |-> Len(frames),
                                              total |-> Len(frames)]]]
        /\ SetTask(id, "done", frames)
    ELSE TaskFail(id, "KeyError")

\* lines 109-113
TaskComplete(id, frames, segments, srt) ==
    IF id \in DOMAIN jobs THEN
        /\ jobs' = [jobs EXCEPT ![id] =
                      [@ EXCEPT !.status = COMPLETED,
                                !.frames = Some(frames),
                                !.subtitle_segments = segments,
                                !.subtitle_srt_path = srt,
                                !.progress = [stage |-> "completed",
                                              current |-> Len(frames),
                                              total |-> Len(frames)]]]
        /\ SetTask(id, "done", frames)
    ELSE TaskFail(id, "KeyError")

\* lines 67-80: up to the await of extract_frames
TaskBegin(id) ==
    /\ id \in DOMAIN tasks /\ tasks[id].pc = "scheduled"
    /\ IF id \in DOMAIN jobs THEN
          /\ jobs' = [jobs EXCEPT ![id] =
                        [@ EXCEPT !.status = EXTRACTING,
                                  !.progress = [stage |-> "extracting",
                                                current |-> 0, total |-> 0]]]
          /\ SetTask(id, "extract", <<>>)
       ELSE TaskFail(id, "KeyError")
    /\ resp' = NoResponse
    /\ UNCHANGED workDirs
    /\ WebAlone

\* the ASCII frames convert_all returns for n extracted frames: frame i is text i
ConvertedFrames(n) == [i \in 1..n |-> i]

\* lines 72-96: extract_frames returned n paths (ok) or raised
TaskExtracted(id, ok, n) ==
    /\ id \in DOMAIN tasks /\ tasks[id].pc = "extract"
    /\ IF ~ok THEN TaskFail(id, "extract_frames failed")
       ELSE IF id \in DOMAIN jobs THEN
          /\ jobs' = [jobs EXCEPT ![id] =
                        [@ EXCEPT !.status = CONVERTING,
                                  !.progress = [stage |-> "converting",
                                                current |-> 0, total |-> n]]]
          /\ tasks' = [tasks EXCEPT ![id] = [@ EXCEPT !.pc = "convert", !.frame_paths = n]]
       ELSE TaskFail(id, "KeyError")
    /\ resp' = NoResponse
    /\ UNCHANGED workDirs
    /\ WebAlone

\* lines 85-104: convert_all returned (ok) or raised
TaskConverted(id, ok) ==
    /\ id \in DOMAIN tasks /\ tasks[id].pc = "convert"
    /\ IF ~ok THEN TaskFail(id, "convert_all failed")
       ELSE IF tasks[id].subtitle THEN
          IF id \in DOMAIN jobs THEN
             /\ jobs' = [jobs EXCEPT ![id] =
                           [@ EXCEPT !.progress = [stage |-> "generating subtitles",
                                                   current |-> 0, total |-> 0]]]
             /\ SetTask(id, "subtitle", ConvertedFrames(tasks[id].frame_paths))
          ELSE TaskFail(id, "KeyError")
       ELSE TaskComplete(id, ConvertedFrames(tasks[id].frame_paths), None, None)
    /\ resp' = NoResponse
    /\ UNCHANGED workDirs
    /\ WebAlone

\* lines 102-113: generate_srt returned a path ("path"), None ("none"), or raised
TaskSubtitled(id, outcome) ==
    /\ id \in DOMAIN tasks /\ tasks[id].pc = "subtitle"
    /\ CASE outcome = "raise" -> TaskFail(id, "generate_srt failed")
         [] outcome = "none" -> TaskComplete(id, tasks[id].frames, None, None)
         [] outcome = "path" ->
              TaskComplete(id, tasks[id].frames, Some("segments"), Some("srt"))
    /\ resp' = NoResponse
    /\ UNCHANGED workDirs
    /\ WebAlone

(***************************************************************************)
(* The request handlers that read or delete a job.                         *)
(***************************************************************************)
\* renderer.frames_to_html(frames, color_scheme): one HTML string per frame
FramesToHtml(frames, scheme) ==
    [i \in 1..Len(frames) |-> [html_of |-> frames[i], scheme |-> scheme]]

\* renderer.frames_to_html's parameters (renderer.py 126) and the keyword
\* argument get_frames and get_frame pass besides the frames (lines 314, 346)
FramesToHtmlParams == {"frames", "crt"}

WebFramesToHtmlKeywords == {"color_scheme"}

CallBinds(keywords, params) == keywords \subseteq params

\* lines 302-311 (the same three checks open get_frame, export_sh, export_mp4_endpoint):
\* the HTTPException raised, as <<code, detail>>, or None when the job may be read
JobGuardNoStatusCheck(id) ==
    IF id \notin DOMAIN jobs THEN Some(<<404, "Job not found">>)
    ELSE IF jobs[id].status \notin {COMPLETED, ERROR} THEN Some(<<400, "Job not completed">>)
    ELSE IF IsNone(jobs[id].frames) THEN Some(<<500, "Frames not available">>)
    ELSE None

JobGuard(id) ==
    IF id \notin DOMAIN jobs THEN Some(<<404, "Job not found">>)
    ELSE IF jobs[id].status # COMPLETED THEN Some(<<400, "Job not completed">>)
    ELSE IF IsNone(jobs[id].frames) THEN Some(<<500, "Frames not available">>)
    ELSE None

Reject(ep, id, arg, g) == Response(ep, id, arg, Get(g)[1], Get(g)[2], <<>>)

\* GET /api/jobs/{job_id}/status
GetJobStatus(id) ==
    /\ resp' = IF id \notin DOMAIN jobs
               THEN Response("status", id, <<>>, 404, "Job not found", <<>>)
               ELSE Response("status", id, <<>>, 200, "",
                             <<jobs[id].status, jobs[id].progress, jobs[id].error>>)
    /\ UNCHANGED <<jobs, tasks, workDirs>>
    /\ WebAlone

\* GET /api/jobs/{job_id}/frames
GetFrames(id) ==
    /\ resp' = LET g == JobGuard(id) IN
               IF ~IsNone(g) THEN Reject("frames", id, <<>>, g)
               ELSE IF ~CallBinds(WebFramesToHtmlKeywords, FramesToHtmlParams)
               THEN Response("frames", id, <<>>, 500, "TypeError", <<>>)
               ELSE Response("frames", id, <<>>, 200, "",
                       <<FramesToHtml(Get(jobs[id].frames), jobs[id].color_scheme),
                         jobs[id].params.fps, jobs[id].subtitle_segments>>)
    /\ UNCHANGED <<jobs, tasks, workDirs>>
    /\ WebAlone

\* GET /api/jobs/{job_id}/frame/{frame_num}
GetFrame(id, frame_num) ==
    /\ resp' = LET g == JobGuard(id) IN
               IF ~IsNone(g) THEN Reject("frame", id, <<frame_num>>, g)
               ELSE IF frame_num < 0 \/ frame_num >= Len(Get(jobs[id].frames))
               THEN Response("frame", id, <<frame_num>>, 404,
                             "Frame number out of range", <<>>)
               ELSE IF ~CallBinds(WebFramesToHtmlKeywords, FramesToHtmlParams)
               THEN Response("frame", id, <<frame_num>>, 500, "TypeError", <<>>)
               ELSE Response("frame", id, <<frame_num>>, 200, "",
                       <<FramesToHtml(<<Get(jobs[id].frames)[frame_num + 1]>>,
                                      jobs[id].color_scheme)[1]>>)
    /\ UNCHANGED <<jobs, tasks, workDirs>>
    /\ WebAlone

\* GET /api/jobs/{job_id}/export/sh: the body is the script export() writes,
\* given by the arguments of exporter.export(frames, path, fps, crt)
ExportSh(id) ==
    /\ resp' = LET g == JobGuard(id) IN
               IF ~IsNone(g) THEN Reject("export_sh", id, <<>>, g)
               ELSE Response("export_sh", id, <<>>, 200, "",
                       <<[frames |-> Get(jobs[id].frames),
                          fps |-> jobs[id].params.fps,
                          crt |-> jobs[id].params.default_crt_playback]>>)
    /\ UNCHANGED <<jobs, tasks, workDirs>>
    /\ WebAlone

\* mp4_exporter.export_mp4's parameters (lines 529-539) and the keyword
\* arguments export_mp4_endpoint passes besides its three positional ones
\* (lines 399-411); Python raises TypeError for a keyword that is no parameter
ExportMp4Params ==
    {"frames", "output_path", "fps", "color", "crt", "work_dir", "charset",
     "target_width", "codec"}

WebExportMp4Keywords ==
    {"color", "color_scheme", "work_dir", "charset", "target_width", "codec",
     "subtitle_path", "font_override"}

\* GET /api/jobs/{job_id}/export/mp4
ExportMp4Endpoint(id) ==
    /\ resp' = LET g == JobGuard(id) IN
               IF ~IsNone(g) THEN Reject("export_mp4", id, <<>>, g)
               ELSE IF ~CallBinds(WebExportMp4Keywords, ExportMp4Params)
               THEN Response("export_mp4", id, <<>>, 500, "TypeError", <<>>)
               ELSE Response("export_mp4", id, <<>>, 200, "", <<"video2ascii.mp4">>)
    /\ UNCHANGED <<jobs, tasks, workDirs>>
    /\ WebAlone

\* line 432 emptying the table
WithoutAnyJob(id) == <<>>

\* line 432: del jobs[job_id]
WithoutJob(id) == [j \in DOMAIN jobs \ {id} |-> jobs[j]]

\* DELETE /api/jobs/{job_id}
DeleteJob(id) ==
    /\ IF id \notin DOMAIN jobs THEN
           /\ resp' = Response("delete", id, <<>>, 404, "Job not found", <<>>)
           /\ UNCHANGED <<jobs, tasks, workDirs>>
       ELSE
           /\ workDirs' = workDirs \ {id}
           /\ jobs' = WithoutJob(id)
           /\ resp' = Response("delete", id, <<>>, 200, "", <<"Job deleted">>)
           /\ UNCHANGED tasks
    /\ WebAlone

\* the state after the module is imported: `jobs = {}`
WebInit ==
    /\ jobs = <<>>
    /\ tasks = <<>>
    /\ workDirs = {}
    /\ resp = NoResponse

NoneOr(S) == {None} \cup {Some(v) : v \in S}

\* the forms a client posts to /api/convert in the job-table specification
WebForms ==
    [width : {None}, fps : {None, Some(31)}, color : {None}, invert : {None},
     edge : {None}, charset : {None}, crt : {None}, subtitle : BOOLEAN,
     preset : {""}]

WebRequest ==
    \E id \in RequestIds :
        \/ GetJobStatus(id)
        \/ GetFrames(id)
        \/ \E n \in -1..MaxFrames : GetFrame(id, n)
        \/ ExportSh(id)
        \/ ExportMp4Endpoint(id)
        \/ DeleteJob(id)

WebTask ==
    \E id \in JobIds :
        \/ TaskBegin(id)
        \/ \E ok \in BOOLEAN, n \in 0..MaxFrames : TaskExtracted(id, ok, n)
        \/ \E ok \in BOOLEAN : TaskConverted(id, ok)
        \/ \E outcome \in {"raise", "none", "path"} : TaskSubtitled(id, outcome)

WebNext ==
    \/ \E form \in WebForms, ffmpeg \in BOOLEAN : ConvertVideo(form, ffmpeg)
    \/ WebTask
    \/ WebRequest

(***************************************************************************)
(* services/mp4_api.py: POST /api/export/webm and /api/export/mp4.  A text  *)
(* (a header, a token) is the sequence of its pieces; " " is white space,   *)
(* "." a full stop, every other piece a run of other characters.            *)
(***************************************************************************)
MaxClock == 60        \* the clock stops here
MaxApiDirs == 2       \* no more export directories are made than this
RateLimit == 2        \* VIDEO2ASCII_RATE_LIMIT_PER_MINUTE as the process started
ClockStep == 30
RATE_WINDOW_SECONDS == 60
MaxRequestBytes == 20000000

Clients == {"198.51.100.7"}

\* payloads an issuer may have encoded: what json.loads(b64decode(piece)) gives
PayloadJson ==
    [Pok    |-> [kind |-> "object", exp |-> [type |-> "int", val |-> 45000]],
     Pold   |-> [kind |-> "object", exp |-> [type |-> "int", val |-> 0]],
     Pnoexp |-> [kind |-> "object", exp |-> [type |-> "missing", val |-> 0]],
     Pstr   |-> [kind |-> "object", exp |-> [type |-> "str", val |-> 0]],
     Plist  |-> [kind |-> "list", exp |-> [type |-> "missing", val |-> 0]],
     Pbad   |-> [kind |-> "raises", exp |-> [type |-> "missing", val |-> 0]]]

PayloadPieces == DOMAIN PayloadJson

\* hmac.new(secret, message, sha256).hexdigest(): a different hex string for
\* every key and message
HmacTable ==
    [k1 |-> [Pok |-> "hmac(k1,Pok)", Pold |-> "hmac(k1,Pold)",
             Pnoexp |-> "hmac(k1,Pnoexp)", Pstr |-> "hmac(k1,Pstr)",
             Plist |-> "hmac(k1,Plist)", Pbad |-> "hmac(k1,Pbad)"],
     k2 |-> [Pok |-> "hmac(k2,Pok)", Pold |-> "hmac(k2,Pold)",
             Pnoexp |-> "hmac(k2,Pnoexp)", Pstr |-> "hmac(k2,Pstr)",
             Plist |-> "hmac(k2,Plist)", Pbad |-> "hmac(k2,Pbad)"]]

HmacHexdigest(secret, message) ==
    IF Len(message) = 1 /\ message[1] \in PayloadPieces
    THEN <<HmacTable[secret][message[1]]>>
    ELSE <<"hmac of another message">>

\* str.strip()
RECURSIVE Strip(_)
Strip(text) ==
    IF text = <<>> THEN text
    ELSE IF Head(text) = " " THEN Strip(Tail(text))
    ELSE IF text[Len(text)] = " " THEN Strip(SubSeq(text, 1, Len(text) - 1))
    ELSE text

\* str.replace(old, "", 1)
RECURSIVE RemoveFirst(_, _)
RemoveFirst(text, old) ==
    IF text = <<>> THEN text
    ELSE IF Head(text) = old THEN Tail(text)
    ELSE <<Head(text)>> \o RemoveFirst(Tail(text), old)

\* str.split(".")
RECURSIVE SplitFrom(_, _)
SplitFrom(part, text) ==
    IF text = <<>> THEN <<part>>
    ELSE IF Head(text) = "." THEN <<part>> \o SplitFrom(<<>>, Tail(text))
    ELSE SplitFrom(Append(part, Head(text)), Tail(text))

\* hmac.compare_digest takes a str only if it is ASCII
IsAscii(text) == \A i \in 1..Len(text) : text[i] # "é"

\* _verify_signed_token, lines 82-105: "True", "False", or the exception that leaves it
VerifySignedToken(token, env, now) ==
    LET parts == SplitFrom(<<>>, token) IN
    IF env.secret = "" THEN "False"
    ELSE IF Len(parts) # 2 THEN "False"
    ELSE IF ~IsAscii(parts[2]) THEN "TypeError"
    ELSE IF HmacHexdigest(env.secret, parts[1]) # parts[2] THEN "False"
    ELSE LET payload == PayloadJson[parts[1][1]] IN
         IF payload.kind = "raises" THEN "False"
         ELSE IF payload.kind # "object" THEN "AttributeError"
         ELSE IF payload.exp.type # "int" THEN "False"
         ELSE IF payload.exp.val > now * 1000 THEN "True" ELSE "False"

\* _check_token, lines 64-75: the HTTPException raised, code 0 for a return, or
\* the exception of _verify_signed_token passing through (the server answers 500)
CheckToken(auth_header, env, now) ==
    IF IsNone(auth_header) \/ Get(auth_header) = <<>> \/ Head(Get(auth_header)) # "Bearer "
    THEN [code |-> 401, detail |-> "Missing bearer token"]
    ELSE LET token == Strip(RemoveFirst(Get(auth_header), "Bearer "))
             verified == IF env.free_mode THEN VerifySignedToken(token, env, now)
                         ELSE "False"
         IN
         IF env.expected # <<>> /\ token = env.expected THEN [code |-> 0, detail |-> ""]
         ELSE IF verified \in {"TypeError", "AttributeError"}
              THEN [code |-> 500, detail |-> verified]
         ELSE IF verified = "True" THEN [code |-> 0, detail |-> ""]
         ELSE IF env.expected = <<>> /\ ~env.free_mode
              THEN [code |-> 500, detail |-> "Server auth token is not configured"]
         ELSE [code |-> 403, detail |-> "Invalid token"]

\* _check_rate_limit, line 120
RecentHits(hits, now) == SelectSeq(hits, LAMBDA t : now - t < RATE_WINDOW_SECONDS)

\* the keyword arguments of the export_mp4 call in _run_export, lines 138-149
ApiExportMp4Keywords ==
    {"color", "color_scheme", "work_dir", "charset", "target_width", "codec",
     "font_override"}

ApiResponse(ep, client, auth, len, code, detail, ran) ==
    [ep |-> ep, client |-> client, authorization |-> auth, content_length |-> len,
     code |-> code, detail |-> detail, ran |-> ran]

\* export_webm (suffix ".webm", codec "vp9") and export_mp4_route (".mp4", "h265"),
\* lines 158-193, for a request whose body is a valid ExportRequest
ExportRoute(ep, codec, client, auth, len) ==
    LET hits == RecentHits(IF client \in DOMAIN rateState THEN rateState[client] ELSE <<>>,
                           apiNow)
        limited == RateLimit > 0 /\ Len(hits) >= RateLimit
        counted == IF RateLimit > 0
                   THEN [c \in DOMAIN rateState \cup {client} |->
                            IF c = client THEN Append(hits, apiNow) ELSE rateState[c]]
                   ELSE rateState
        auth_result == CheckToken(auth, apiEnv, apiNow)
    IN
    /\ apiDirs < MaxApiDirs
    /\ IF ~IsNone(len) /\ Get(len) > MaxRequestBytes THEN
           /\ apiResp' = ApiResponse(ep, client, auth, len, 413, "Request too large", <<>>)
           /\ UNCHANGED <<rateState, apiDirs>>
       ELSE IF limited THEN
           /\ apiResp' = ApiResponse(ep, client, auth, len, 429, "Rate limit exceeded", <<>>)
           /\ UNCHANGED <<rateState, apiDirs>>
       ELSE IF auth_result.code # 0 THEN
           /\ apiResp' = ApiResponse(ep, client, auth, len, auth_result.code,
                                     auth_result.detail, <<>>)
           /\ rateState' = counted
           /\ UNCHANGED apiDirs
       ELSE IF ~CallBinds(ApiExportMp4Keywords, ExportMp4Params) THEN
           \* _run_export: mkdtemp, then the call of export_mp4 raises TypeError
           /\ apiResp' = ApiResponse(ep, client, auth, len, 500, "TypeError", <<codec>>)
           /\ rateState' = counted
           /\ apiDirs' = apiDirs + 1
       ELSE
           \* the file is sent and the background task removes the directory
           /\ apiResp' = ApiResponse(ep, client, auth, len, 200, "", <<codec>>)
           /\ rateState' = counted
           /\ UNCHANGED apiDirs
    /\ UNCHANGED <<apiEnv, apiNow>>
    /\ ApiAlone

ExportWebm(client, auth, len) == ExportRoute("webm", "vp9", client, auth, len)

ExportMp4Route(client, auth, len) == ExportRoute("mp4", "h265", client, auth, len)

\* time passes
ApiTick ==
    /\ apiNow < MaxClock
    /\ apiNow' = apiNow + ClockStep
    /\ UNCHANGED <<apiEnv, rateState, apiDirs, apiResp>>
    /\ ApiAlone

NoApiResponse == ApiResponse("", "", None, None, 0, "", <<>>)

\* the process starts with some environment
ApiInit ==
    /\ apiEnv \in [expected : {<<>>, <<"T">>}, free_mode : BOOLEAN, secret : {"", "k1"}]
    /\ apiNow = 0
    /\ rateState = <<>>
    /\ apiDirs = 0
    /\ apiResp = NoApiResponse

ApiIdle ==
    /\ apiEnv = [expected |-> <<>>, free_mode |-> FALSE, secret |-> ""]
    /\ apiNow = 0
    /\ rateState = <<>>
    /\ apiDirs = 0
    /\ apiResp = NoApiResponse

\* tokens a client may send, and the Authorization headers carrying them
ApiTokens ==
    { <<>>, <<"T">>, <<"x">>, <<"T", "x">>, <<"Bearer ", "T">>, <<"Pok">>,
      <<"Pok", ".", "hmac(k1,Pok)">>, <<"Pok", ".", "hmac(k2,Pok)">>,
      <<"Pok", ".", "hmac(k1,Pold)">>, <<"Pold", ".", "hmac(k1,Pold)">>,
      <<"Pnoexp", ".", "hmac(k1,Pnoexp)">>, <<"Pstr", ".", "hmac(k1,Pstr)">>,
      <<"Plist", ".", "hmac(k1,Plist)">>, <<"Pbad", ".", "hmac(k1,Pbad)">>,
      <<"Pok", ".", "é">>, <<"Pok", ".", "hmac(k1,Pok)", ".", "x">>,
      <<"x", "Pok", ".", "hmac(k1,Pok)">> }

AuthHeaders ==
    {None, Some(<<>>), Some(<<"T">>), Some(<<"bearer ", "T">>),
     Some(<<" ", "Bearer ", "T">>), Some(<<"Bearer ", " ", "T", " ">>)}
        \cup {Some(<<"Bearer ">> \o token) : token \in ApiTokens}

ContentLengths == {None, Some(MaxRequestBytes), Some(MaxRequestBytes + 1)}

ApiNext ==
    \/ \E client \in Clients, auth \in AuthHeaders, len \in ContentLengths :
          \/ ExportWebm(client, auth, len)
          \/ ExportMp4Route(client, auth, len)
    \/ ApiTick

(***************************************************************************)
(* subtitle.generate_srt and the three functions it calls.  Each of them   *)
(* runs a subprocess; what the subprocess does is the environment's choice.*)
(* A path is <<directory, file name>>.                                     *)
(***************************************************************************)
SrtWorkDirs == {"w1", "w2"}

\* subprocess.run(ffprobe ...): found is FALSE for FileNotFoundError; stdout is
\* a text whose piece " " is white space
ProbeRuns == [found : BOOLEAN, returncode : {0, 1}, stdout : {<<>>, <<" ">>, <<"2", " ">>}]

\* subprocess.run(ffmpeg ...), and the size of the file it left (-1: no file)
ExtractRuns == [found : BOOLEAN, returncode : {0, 1}, size : {-1, 0, 120}]

\* find_whisper_cli, get_whisper_model_path, _extract_audio, then the
\* whisper-cli run and whether transcript.srt exists after it
WhisperRuns ==
    [whisper_cli : BOOLEAN, model : BOOLEAN, audio : BOOLEAN, found : BOOLEAN,
     returncode : {0, 1}, srt_exists : BOOLEAN]

\* probe_subtitle_stream, lines 207-222
ProbeSubtitleStream(run) ==
    IF ~run.found THEN FALSE
    ELSE IF run.returncode # 0 THEN FALSE
    ELSE Strip(run.stdout) # <<>>

\* extract_subtitle_stream, lines 240-272
ExtractSubtitleStream(work_dir, run) ==
    IF ~run.found \/ run.returncode # 0 THEN None
    ELSE IF run.size = -1 \/ run.size = 0 THEN None
    ELSE Some(<<work_dir, "embedded_subtitle.srt">>)

\* _generate_srt_whisper, lines 288-357
GenerateSrtWhisper(work_dir, run) ==
    IF ~run.whisper_cli THEN None
    ELSE IF ~run.model THEN None
    ELSE IF ~run.audio THEN None
    ELSE IF ~run.found \/ run.returncode # 0 THEN None
    ELSE IF ~run.srt_exists THEN None
    ELSE Some(<<work_dir, "transcript.srt">>)

\* generate_srt, line 376: where it goes after the probe
AfterProbe(has_subs) == IF has_subs THEN "extract" ELSE "whisper"

AfterExtractAlwaysWhisper(srt_path) == "whisper"

\* generate_srt, lines 379-381: where it goes after the extraction
AfterExtract(srt_path) == IF ~IsNone(srt_path) THEN "return" ELSE "whisper"

NoSrtLocals ==
    [probe |-> None, has_subs |-> None, extract |-> None, srt_path |-> None,
     whisper |-> None, whisper_path |-> None]

\* generate_srt(video_path, work_dir) was just called
SrtInit ==
    /\ srtIn \in [work_dir : SrtWorkDirs]
    /\ srtPc = "probe"
    /\ srtCalls = <<>>
    /\ srtLocals = NoSrtLocals
    /\ srtOut = None

SrtIdle ==
    /\ srtIn = [work_dir |-> "w1"]
    /\ srtPc = "idle"
    /\ srtCalls = <<>>
    /\ srtLocals = NoSrtLocals
    /\ srtOut = None

\* line 376
SrtProbe(run) ==
    /\ srtPc = "probe"
    /\ LET has_subs == ProbeSubtitleStream(run) IN
       /\ srtLocals' = [srtLocals EXCEPT !.probe = Some(run), !.has_subs = Some(has_subs)]
       /\ srtPc' = AfterProbe(has_subs)
    /\ srtCalls' = Append(srtCalls, "probe")
    /\ UNCHANGED <<srtIn, srtOut>>
    /\ SrtAlone

\* lines 378-381
SrtExtract(run) ==
    /\ srtPc = "extract"
    /\ LET srt_path == ExtractSubtitleStream(srtIn.work_dir, run) IN
       /\ srtLocals' = [srtLocals EXCEPT !.extract = Some(run), !.srt_path = Some(srt_path)]
       /\ IF AfterExtract(srt_path) = "return"
          THEN srtPc' = "done" /\ srtOut' = Some(srt_path)
          ELSE srtPc' = "whisper" /\ UNCHANGED srtOut
    /\ srtCalls' = Append(srtCalls, "extract")
    /\ UNCHANGED srtIn
    /\ SrtAlone

\* line 384
SrtWhisper(run) ==
    /\ srtPc = "whisper"
    /\ LET path == GenerateSrtWhisper(srtIn.work_dir, run) IN
       /\ srtLocals' = [srtLocals EXCEPT !.whisper = Some(run), !.whisper_path = Some(path)]
       /\ srtOut' = Some(path)
    /\ srtPc' = "done"
    /\ srtCalls' = Append(srtCalls, "whisper")
    /\ UNCHANGED srtIn
    /\ SrtAlone

SrtNext ==
    \/ \E run \in ProbeRuns : SrtProbe(run)
    \/ \E run \in ExtractRuns : SrtExtract(run)
    \/ \E run \in WhisperRuns : SrtWhisper(run)

(***************************************************************************)
(* cli.py: parse_args and main.                                            *)
(***************************************************************************)
\* the options of a command line that the settings depend on; color, invert
\* and edge are store_true flags, so they are given (True) or absent (None)
CliArgvs(presets, widths, charsets) ==
    [input : {"video.mp4", "missing.mp4"}, preset : NoneOr(presets), crt : BOOLEAN,
     width : NoneOr(widths), fps : NoneOr({24}), color : NoneOr({TRUE}),
     invert : NoneOr({TRUE}), edge : NoneOr({TRUE}), charset : NoneOr(charsets),
     export : BOOLEAN, no_cache : BOOLEAN]

CliPresetCrtWins(argv) == IF argv.crt THEN Some("crt") ELSE argv.preset

\* parse_args, lines 233-234: --crt is shorthand for --preset crt
CliPreset(argv) == IF argv.crt /\ IsNone(argv.preset) THEN Some("crt") ELSE argv.preset

\* parse_args, lines 216-272: the namespace, and the message of parser.error ("" for none)
ParseArgs(argv) ==
    LET name == CliPreset(argv)
        preset == IF ~IsNone(name) THEN PresetDef(Get(name)) ELSE <<>>
        args == [input   |-> argv.input,
                 preset  |-> name,
                 crt     |-> argv.crt,
                 width   |-> IF IsNone(argv.width) THEN DictGet(preset, "width", 160)
                             ELSE Get(argv.width),
                 fps     |-> IF IsNone(argv.fps) THEN DictGet(preset, "fps", 12)
                             ELSE Get(argv.fps),
                 color   |-> IF IsNone(argv.color) THEN DictGet(preset, "color", FALSE)
                             ELSE Get(argv.color),
                 invert  |-> IF IsNone(argv.invert) THEN DictGet(preset, "invert", FALSE)
                             ELSE Get(argv.invert),
                 edge    |-> IF IsNone(argv.edge) THEN DictGet(preset, "edge", FALSE)
                             ELSE Get(argv.edge),
                 charset |-> IF IsNone(argv.charset) THEN DictGet(preset, "charset", "classic")
                             ELSE Get(argv.charset),
                 color_scheme |-> DictGetOpt(preset, "color_scheme"),
                 crt_filter |-> DictGet(preset, "crt_filter", FALSE),
                 export  |-> argv.export,
                 no_cache |-> argv.no_cache]
        error == IF argv.input = "missing.mp4" THEN "Input file not found"
                 ELSE IF args.width < 20 THEN "--width must be at least 20"
                 ELSE IF args.fps < 1 THEN "--fps must be at least 1"
                 ELSE ""
    IN [error |-> error, args |-> args]

\* main, line 372
CliDefaultCrtPlayback(args) == args.crt \/ args.preset = Some("crt")

\* converter.extract_frames' parameters (converter.py 30-32) and the keyword
\* main passes it (cli.py 331); player.play's parameters (player.py 188-196)
\* and the keywords main passes it (cli.py 423-431)
ExtractFramesParams == {"input_path", "fps", "width", "work_dir", "crt"}

CliExtractFramesKeywords == {"crt_filter"}

PlayParams == {"frames", "fps", "speed", "crt", "loop", "progress", "subtitle_segments"}

CliPlayKeywords == {"speed", "color_scheme", "loop", "progress", "subtitle_segments"}

\* how a run ended: the exception that left main ("" for a return), the call
\* of export, whether mkdtemp created the work directory (line 319), and
\* whether the directory is there after the run
CliOut(exception, export_call, created, work_dir) ==
    [exception |-> exception, export_call |-> export_call,
     created |-> created, work_dir |-> work_dir]

NoCliOut == CliOut("", None, FALSE, FALSE)

\* lines 433-441 keeping the directory whatever the flag
FinallyKeeps(no_cache, created) == created

\* the finally clause, lines 433-441: is the work directory there afterwards?
\* shutil.rmtree(work_dir, ignore_errors=True) when --no-cache was given
Finally(no_cache, created) == created /\ ~no_cache

\* the program was started with a command line
CliInit(argvs) ==
    /\ cliArgv \in {Some(argv) : argv \in argvs}
    /\ cliPc = "start"
    /\ cliArgs = None
    /\ cliOut = NoCliOut

CliIdle ==
    /\ cliArgv = None
    /\ cliPc = "idle"
    /\ cliArgs = None
    /\ cliOut = NoCliOut

\* main, line 277
CliParseArgs ==
    /\ cliPc = "start"
    /\ LET parsed == ParseArgs(Get(cliArgv)) IN
       IF parsed.error # "" THEN
           /\ cliPc' = "exit"
           /\ cliOut' = CliOut("SystemExit", None, FALSE, FALSE)
           /\ UNCHANGED cliArgs
       ELSE
           /\ cliPc' = "parsed"
           /\ cliArgs' = Some(parsed.args)
           /\ UNCHANGED cliOut
    /\ UNCHANGED cliArgv
    /\ CliAlone

\* main, lines 309-441, without --web, --subtitle and the video exports;
\* ffmpeg: whether check_ffmpeg finds the binary (it exits at line 315, before
\* the work directory is created).  Every way out of the try block, a return
\* or an exception, passes through the finally clause.
CliMain(ffmpeg) ==
    /\ cliPc = "parsed"
    /\ LET args == Get(cliArgs) IN
       cliOut' =
           IF ~ffmpeg THEN CliOut("SystemExit", None, FALSE, FALSE)
           ELSE IF ~CallBinds(CliExtractFramesKeywords, ExtractFramesParams)
           THEN CliOut("TypeError", None, TRUE, Finally(args.no_cache, TRUE))
           ELSE IF args.export
           THEN CliOut("", Some([fps |-> args.fps, crt |-> CliDefaultCrtPlayback(args)]),
                       TRUE, Finally(args.no_cache, TRUE))
           ELSE IF ~CallBinds(CliPlayKeywords, PlayParams)
           THEN CliOut("TypeError", None, TRUE, Finally(args.no_cache, TRUE))
           ELSE CliOut("", None, TRUE, Finally(args.no_cache, TRUE))
    /\ cliPc' = "done"
    /\ UNCHANGED <<cliArgv, cliArgs>>
    /\ CliAlone

CliNext ==
    \/ CliParseArgs
    \/ \E ffmpeg \in BOOLEAN : CliMain(ffmpeg)

(***************************************************************************)
(* POST /api/convert for one chosen form.                                  *)
(***************************************************************************)
SetInit(forms) == setForm \in {Some(form) : form \in forms}

SetIdle == setForm = None

\* the client posts the form
PostForm(ffmpeg) ==
    /\ ~IsNone(setForm)
    /\ ConvertVideo(Get(setForm), ffmpeg)

(***************************************************************************)
(* mp4_exporter.render_ascii_frame: the size of the image it writes.       *)
(* The frame is given by its shape, max(len(line)) and len(lines) of       *)
(* ascii_text.split("\n"), so it has at least one line.  The cell of "M"   *)
(* in the font, before and after the font is reloaded at another size, is  *)
(* the font file's.  Quotients are exact; int() of a float that rounding   *)
(* puts just below an integer is one less, and then the evening adds one.  *)
(***************************************************************************)
FrameShapes == [max_width : {0, 1, 79, 80, 500}, num_lines : {1, 3, 45, 250}]

\* <<char_width, char_height>>
FontCells == {<<8, 16>>, <<7, 15>>, <<12, 23>>}

ReloadedCells == {<<9, 17>>, <<13, 27>>, <<49, 99>>}

\* target_width: 0 stands for None
TargetWidths == {0, 1281, 1920, 5001}

RenderInputs ==
    [shape : FrameShapes, cell : FontCells, font_path : BOOLEAN,
     reloaded : ReloadedCells, target_width : TargetWidths]

Abs(n) == IF n < 0 THEN 0 - n ELSE n

\* lines 232-233 and 243-244
EvenUp(n) == IF n % 2 = 0 THEN n ELSE n + 1

\* lines 222-223: abs(new_aspect - ascii_aspect_ratio) > 0.01, the ratios
\* being width / height (1.0 for height 0) and base_width / base_height
AspectDrifted(width, height, base_width, base_height) ==
    IF height > 0
    THEN Abs((width * base_height) - (base_width * height)) * 100 > height * base_height
    ELSE Abs(base_height - base_width) * 100 > base_height

ScaleDownNoReEven(width, height) ==
    LET larger == Max(width, height) IN
    [width |-> (width * 3840) \div larger, height |-> (height * 3840) \div larger]

\* lines 239-244: scale = min(3840 / width, 3840 / height)
ScaleDown(width, height) ==
    LET larger == Max(width, height) IN
    [width |-> EvenUp((width * 3840) \div larger),
     height |-> EvenUp((height * 3840) \div larger)]

NoDim ==
    [base_width |-> 0, base_height |-> 0, target |-> 0, width |-> 0, height |-> 0,
     char_width |-> 0, char_height |-> 0, font_size |-> 20, path |-> <<>>]

\* render_ascii_frame was called and has loaded its font (lines 87-164)
RndInit ==
    /\ rndIn \in RenderInputs
    /\ rndPc = "measure"
    /\ rndDim = [NoDim EXCEPT !.char_width = rndIn.cell[1], !.char_height = rndIn.cell[2]]
    /\ rndImage = None

RndIdle ==
    /\ rndIn = [shape |-> [max_width |-> 80, num_lines |-> 45], cell |-> <<8, 16>>,
                font_path |-> FALSE, reloaded |-> <<9, 17>>, target_width |-> 0]
    /\ rndPc = "idle"
    /\ rndDim = NoDim
    /\ rndImage = None

\* lines 166-192
RenderMeasure ==
    /\ rndPc = "measure"
    /\ rndDim' = [rndDim EXCEPT
                    !.base_width = rndIn.shape.max_width * rndDim.char_width,
                    !.base_height = rndIn.shape.num_lines * rndDim.char_height,
                    !.target = IF rndIn.target_width > 0 THEN rndIn.target_width ELSE 1920]
    /\ rndPc' = "scale"
    /\ UNCHANGED <<rndIn, rndImage>>
    /\ RndAlone

\* lines 196-229; loaded: whether ImageFont.truetype gives the font at the new size
RenderScale(loaded) ==
    /\ rndPc = "scale"
    /\ IF rndDim.base_width < rndDim.target THEN
           IF rndDim.base_width = 0 THEN
               \* line 198: ZeroDivisionError
               /\ rndPc' = "raised"
               /\ UNCHANGED rndDim
           ELSE
               LET new_font_size == Max(12, (rndDim.font_size * rndDim.target)
                                                \div rndDim.base_width)
                   reload == rndIn.font_path /\ loaded
                   cw == IF reload THEN rndIn.reloaded[1] ELSE rndDim.char_width
                   ch == IF reload THEN rndIn.reloaded[2] ELSE rndDim.char_height
                   width == rndIn.shape.max_width * cw
                   height == rndIn.shape.num_lines * ch
               IN
               /\ rndDim' = [rndDim EXCEPT
                    !.char_width = cw, !.char_height = ch,
                    !.font_size = IF reload THEN new_font_size ELSE @,
                    !.width = width,
                    !.height = IF AspectDrifted(width, height, rndDim.base_width,
                                                rndDim.base_height)
                               THEN (width * rndDim.base_height) \div rndDim.base_width
                               ELSE height,
                    !.path = <<"up">>]
               /\ rndPc' = "even"
       ELSE
           /\ rndDim' = [rndDim EXCEPT !.width = rndDim.base_width,
                                       !.height = rndDim.base_height,
                                       !.path = <<"base">>]
           /\ rndPc' = "even"
    /\ UNCHANGED <<rndIn, rndImage>>
    /\ RndAlone

\* lines 232-233
RenderEven ==
    /\ rndPc = "even"
    /\ rndDim' = [rndDim EXCEPT !.width = EvenUp(@), !.height = EvenUp(@)]
    /\ rndPc' = "limit"
    /\ UNCHANGED <<rndIn, rndImage>>
    /\ RndAlone

\* lines 237-259
RenderLimit ==
    /\ rndPc = "limit"
    /\ IF rndDim.width > 3840 \/ rndDim.height > 3840 THEN
           LET scaled == ScaleDown(rndDim.width, rndDim.height)
               larger == Max(rndDim.width, rndDim.height)
           IN rndDim' = [rndDim EXCEPT
                           !.width = scaled.width, !.height = scaled.height,
                           !.font_size = Max(12, (@ * 3840) \div larger),
                           !.path = Append(@, "down")]
       ELSE UNCHANGED rndDim
    /\ rndPc' = "save"
    /\ UNCHANGED <<rndIn, rndImage>>
    /\ RndAlone

\* line 263 on: Image.new("RGB", (width, height)), the drawing, img.save
RenderSave ==
    /\ rndPc = "save"
    /\ rndImage' = Some(<<rndDim.width, rndDim.height>>)
    /\ rndPc' = "done"
    /\ UNCHANGED <<rndIn, rndDim>>
    /\ RndAlone

RndNext ==
    \/ RenderMeasure
    \/ \E loaded \in BOOLEAN : RenderScale(loaded)
    \/ RenderEven
    \/ RenderLimit
    \/ RenderSave

(***************************************************************************)
(* mp4_exporter.export_mp4: the frames rendered, then one ffmpeg run.      *)
(* A frame is "art" or the empty text "", for which render_ascii_frame     *)
(* divides by a base width of zero.                                        *)
(***************************************************************************)
MaxMp4Frames == 2

Mp4Codecs == {"prores422", "h265", "h264", "vp9"}

\* lines 601-625: the arguments that choose the encoder
CodecArgs(codec) ==
    IF codec = "prores422"
    THEN <<"-c:v", "prores_ks", "-profile:v", "hq", "-pix_fmt", "yuv422p10le">>
    ELSE IF codec = "h265"
    THEN <<"-c:v", "libx265", "-pix_fmt", "yuv420p", "-crf", "18", "-preset", "medium">>
    ELSE <<"-c:v", "libx264", "-pix_fmt", "yuv420p", "-crf", "18">>

\* lines 592-627
FfmpegCmd(args) ==
    [framerate |-> args.fps, input |-> "rendered/frame_%06d.png",
     video |-> CodecArgs(args.codec), output |-> args.output_path]

\* render_ascii_frame, lines 173-198, for a frame of export_mp4
RenderRaises(frame) == frame = ""

\* export_mp4 was called
Mp4Init ==
    /\ mp4Args \in [frames : SeqsUpTo({"art", ""}, MaxMp4Frames), fps : {12, 30},
                    codec : Mp4Codecs, output_path : {"out.mp4", "out.webm"}]
    /\ mp4Pc = At("start", 0)
    /\ mp4Dir = None
    /\ mp4Cmd = None
    /\ mp4Err = ""

Mp4Idle ==
    /\ mp4Args = [frames |-> <<>>, fps |-> 12, codec |-> "h265", output_path |-> "out.mp4"]
    /\ mp4Pc = At("idle", 0)
    /\ mp4Dir = None
    /\ mp4Cmd = None
    /\ mp4Err = ""

\* lines 553-570
Mp4Start ==
    /\ mp4Pc.stage = "start"
    /\ mp4Dir' = Some(0)
    /\ mp4Pc' = IF mp4Args.frames = <<>> THEN At("encode", 0) ELSE At("render", 1)
    /\ UNCHANGED <<mp4Args, mp4Cmd, mp4Err>>
    /\ Mp4Alone

\* lines 572-582, one frame
Mp4RenderFrame ==
    /\ mp4Pc.stage = "render"
    /\ IF RenderRaises(mp4Args.frames[mp4Pc.i]) THEN
           /\ mp4Err' = "ZeroDivisionError"
           /\ mp4Pc' = At("raised", mp4Pc.i)
           /\ UNCHANGED mp4Dir
       ELSE
           /\ mp4Dir' = Some(Get(mp4Dir) + 1)
           /\ mp4Pc' = IF mp4Pc.i = Len(mp4Args.frames) THEN At("encode", 0)
                       ELSE At("render", mp4Pc.i + 1)
           /\ UNCHANGED mp4Err
    /\ UNCHANGED <<mp4Args, mp4Cmd>>
    /\ Mp4Alone

\* lines 589-630; ok: whether ffmpeg exits with 0 (check=True raises otherwise)
Mp4Encode(ok) ==
    /\ mp4Pc.stage = "encode"
    /\ mp4Cmd' = Some(FfmpegCmd(mp4Args))
    /\ IF ok THEN mp4Pc' = At("cleanup", 0) /\ UNCHANGED mp4Err
       ELSE mp4Pc' = At("raised", 0) /\ mp4Err' = "CalledProcessError"
    /\ UNCHANGED <<mp4Args, mp4Dir>>
    /\ Mp4Alone

\* lines 633-635
Mp4Cleanup ==
    /\ mp4Pc.stage = "cleanup"
    /\ mp4Dir' = None
    /\ mp4Pc' = At("done", 0)
    /\ UNCHANGED <<mp4Args, mp4Cmd, mp4Err>>
    /\ Mp4Alone

Mp4Next ==
    \/ Mp4Start
    \/ Mp4RenderFrame
    \/ \E ok \in BOOLEAN : Mp4Encode(ok)
    \/ Mp4Cleanup

\* every component but the named ones at rest
(***************************************************************************)
(* subtitle.get_subtitle_for_frame.  Segment times are in milliseconds, as *)
(* an SRT file gives them; frame_index / fps is compared with them exactly.*)
(***************************************************************************)
MaxSegments == 2

InSegmentClosed(seg, frame_index, fps) ==
    /\ seg.start * fps <= frame_index * 1000
    /\ frame_index * 1000 <= seg.end * fps

\* line 482: start_sec <= time_sec < end_sec, with time_sec = frame_index / fps
\* and fps > 0
InSegment(seg, frame_index, fps) ==
    /\ seg.start * fps <= frame_index * 1000
    /\ frame_index * 1000 < seg.end * fps

\* lines 481-485
RECURSIVE FirstActive(_, _, _)
FirstActive(segments, frame_index, fps) ==
    IF segments = <<>> THEN None
    ELSE IF InSegment(Head(segments), frame_index, fps) THEN Some(Head(segments).text)
    ELSE FirstActive(Tail(segments), frame_index, fps)

\* get_subtitle_for_frame, lines 476-485; segments is an Optional list
GetSubtitleForFrame(segments, frame_index, fps) ==
    IF IsNone(segments) \/ Get(segments) = <<>> \/ fps <= 0 THEN None
    ELSE FirstActive(Get(segments), frame_index, fps)

Segments == [start : {0, 1000}, end : {1000, 2000}, text : {"a", "b"}]

\* get_subtitle_for_frame was called
SubtitleInit ==
    /\ fnIn \in [fn : {"get_subtitle_for_frame"},
                 segments : NoneOr(SeqsUpTo(Segments, MaxSegments)),
                 frame_index : {-1, 0, 11, 12, 24}, fps : {-1, 0, 12}]
    /\ fnPc = "call"
    /\ fnOut = None

CallGetSubtitleForFrame ==
    /\ fnPc = "call" /\ fnIn.fn = "get_subtitle_for_frame"
    /\ fnOut' = Some(GetSubtitleForFrame(fnIn.segments, fnIn.frame_index, fnIn.fps))
    /\ fnPc' = "done"
    /\ UNCHANGED fnIn
    /\ FnAlone

\* ---- converter.py: image_to_ascii, the character of one pixel ----

\* a character is its code point, a string of characters the sequence of
\* their code points
\* converter.CHARSETS values
CharsetStrings ==
    [ classic |->
        <<
           32, 46, 58, 45, 61, 43, 42, 35, 37, 64 >>,
      blocks |->
        <<
           32, 9617, 9618, 9619, 9608 >>,
      braille |->
        <<
           32, 10241, 10242, 10243, 10244, 10245, 10246, 10247, 10248,
           10249, 10250, 10251, 10252, 10253, 10254, 10255, 10256, 10257,
           10258, 10259, 10260, 10261, 10262, 10263, 10264, 10265, 10266,
           10267, 10268, 10269, 10270, 10271, 10272, 10273, 10274, 10275,
           10276, 10277, 10278, 10279, 10280, 10281, 10282, 10283, 10284,
           10285, 10286, 10287, 10288, 10289, 10290, 10291, 10292, 10293,
           10294, 10295, 10296, 10297, 10298, 10299, 10300, 10301, 10302,
           10303 >>,
      dense |->
        <<
           32, 46, 39, 96, 94, 34, 44, 58, 59, 73, 108, 33, 105, 62, 60,
           126, 43, 95, 45, 63, 93, 91, 125, 123, 49, 41, 40, 124, 92, 47,
           116, 102, 106, 114, 120, 110, 117, 118, 99, 122, 88, 89, 85, 74,
           67, 76, 81, 48, 79, 90, 109, 119, 113, 112, 100, 98, 107, 104,
           97, 111, 42, 35, 77, 87, 38, 56, 37, 66, 64, 36 >>,
      simple |->
        <<
           32, 46, 111, 79, 48 >>,
      petscii |->
        <<
           32, 9617, 9601, 9615, 9620, 9614, 9602, 9621, 9613, 9603, 9612,
           9604, 9618, 9619, 9623, 9622, 9624, 9629, 9626, 9625, 9627,
           9628, 9609, 9610, 9611, 9606, 9607, 9605, 9608 >> ]

\* custom character sets, given as the string itself: "a", "ab" and the
\* 52 letters a..z A..Z
CustomCharsets ==
    [ a |->
        <<
           97 >>,
      ab |->
        <<
           97, 98 >>,
      letters |->
        <<
           97, 98, 99, 100, 101, 102, 103, 104, 105, 106, 107, 108, 109,
           110, 111, 112, 113, 114, 115, 116, 117, 118, 119, 120, 121, 122,
           65, 66, 67, 68, 69, 70, 71, 72, 73, 74, 75, 76, 77, 78, 79, 80,
           81, 82, 83, 84, 85, 86, 87, 88, 89, 90 >> ]

\* ---- Python float: IEEE 754 binary64, round to nearest, ties to even ----

\* significant bits of a binary64 number
MantissaBits == 53

Zeros(k) == [i \in 1..k |-> 0]

\* the low k bits of n, most significant first
RECURSIVE IntBits(_, _)
IntBits(n, k) ==
    IF k = 0 THEN <<>> ELSE Append(IntBits(n \div 2, k - 1), n % 2)

RECURSIVE BitsInt(_)
BitsInt(bits) ==
    IF bits = <<>> THEN 0
    ELSE 2 * BitsInt(SubSeq(bits, 1, Len(bits) - 1)) + bits[Len(bits)]

LeadingZeros(bits) ==
    IF \A i \in 1..Len(bits) : bits[i] = 0 THEN Len(bits)
    ELSE (CHOOSE i \in 1..Len(bits) :
              bits[i] = 1 /\ \A k \in 1..(i - 1) : bits[k] = 0) - 1

\* a float is bits b[1..53] and exp, its value the sum of b[i] * 2^(exp - i)
FloatZero == [bits |-> Zeros(MantissaBits), exp |-> 0]

\* the next float above a non-zero one
Increment(bits, exp) ==
    IF \A i \in 1..Len(bits) : bits[i] = 1
    THEN [bits |-> <<1>> \o Zeros(Len(bits) - 1), exp |-> exp + 1]
    ELSE LET j == CHOOSE i \in 1..Len(bits) :
                      /\ bits[i] = 0
                      /\ \A k \in (i + 1)..Len(bits) : bits[k] = 1
         IN  [bits |-> SubSeq(bits, 1, j - 1) \o <<1>> \o Zeros(Len(bits) - j),
              exp |-> exp]

\* the float nearest to the exact value given by bits (any number of
\* them) and exp; sticky tells that the exact value has more non-zero bits
\* below the given ones
Round(bits, exp, sticky) ==
    LET z == LeadingZeros(bits)
        all == bits \o Zeros(MantissaBits + 1)
        keep == SubSeq(all, z + 1, z + MantissaBits)
        guard == all[z + MantissaBits + 1]
        rest == sticky \/ \E i \in (z + MantissaBits + 2)..Len(bits) : bits[i] = 1
    IN  IF z = Len(bits) THEN FloatZero
        ELSE IF guard = 1 /\ (rest \/ keep[MantissaBits] = 1)
             THEN Increment(keep, exp - z)
             ELSE [bits |-> keep, exp |-> exp - z]

\* float(n) for an integer 0 <= n < 2^10: exact
FloatOfInt(n) ==
    Round(IntBits(n, 10), 10, FALSE)

\* long division of bits[lo..hi] by d with the remainder r carried in:
\* the quotient bits and the remainder carried out
RECURSIVE LongDivide(_, _, _, _, _)
LongDivide(bits, d, lo, hi, r) ==
    IF lo = hi
    THEN [q |-> <<(2 * r + bits[lo]) \div d>>, r |-> (2 * r + bits[lo]) % d]
    ELSE LET mid == (lo + hi) \div 2
             left == LongDivide(bits, d, lo, mid, r)
             right == LongDivide(bits, d, mid + 1, hi, left.r)
         IN  [q |-> left.q \o right.q, r |-> right.r]

\* x / d for a float x >= 0 and an integer 1 <= d < 2^10 that is a float
FloatDivide(x, d) ==
    LET res == LongDivide(x.bits \o Zeros(MantissaBits), d, 1,
                          2 * MantissaBits, 0)
    IN  Round(res.q, x.exp, res.r # 0)

Reversed(chars) == [i \in 1..Len(chars) |-> chars[Len(chars) + 1 - i]]

\* long multiplication of low[lo..hi], bits with the least significant
\* first, by m with the carry c coming in: the product bits, least
\* significant first, and the carry going out
RECURSIVE LongMultiply(_, _, _, _, _)
LongMultiply(low, m, lo, hi, c) ==
    IF lo = hi
    THEN [p |-> <<(low[lo] * m + c) % 2>>, c |-> (low[lo] * m + c) \div 2]
    ELSE LET mid == (lo + hi) \div 2
             below == LongMultiply(low, m, lo, mid, c)
             above == LongMultiply(low, m, mid + 1, hi, below.c)
         IN  [p |-> below.p \o above.p, c |-> above.c]

\* x * m for a float x >= 0 and an integer 0 <= m < 2^10
FloatMultiply(x, m) ==
    LET res == LongMultiply(Reversed(x.bits), m, 1, MantissaBits, 0)
    IN  Round(IntBits(res.c, 10) \o Reversed(res.p), x.exp + 10, FALSE)

\* int(x) for a float 0 <= x < 2^31: the integer part
IntOfFloat(x) ==
    IF x.exp <= 0 THEN 0 ELSE BitsInt(SubSeq(x.bits, 1, x.exp))

\* ---- image_to_ascii ----

\* lines 145-152: the characters, darkest first
Chars(charset, invert) ==
    LET chars == IF charset \in CHARSETS THEN CharsetStrings[charset]
                 ELSE CustomCharsets[charset]
    IN  IF invert THEN Reversed(chars) ELSE chars

\* lines 174 and 182: the brightness of a pixel, (r + g + b) / 3.0 in
\* colour and the grey level itself otherwise
Brightness(color, pixel) ==
    IF color THEN FloatDivide(FloatOfInt(pixel[1] + pixel[2] + pixel[3]), 3)
    ELSE FloatOfInt(pixel[1])

\* lines 175 and 183: int((brightness / 255.0) * (len(chars) - 1))
CharIdx(brightness, n) ==
    IntOfFloat(FloatMultiply(FloatDivide(brightness, 255), n - 1))

\* lines 171-184 for one pixel of the resized image: the index and the
\* character appended to the line
ImageToAsciiChar(charset, invert, color, pixel) ==
    LET chars == Chars(charset, invert)
        char_idx == CharIdx(Brightness(color, pixel), Len(chars))
    IN  [char_idx |-> char_idx, char |-> chars[char_idx + 1]]

\* a grey pixel is <<level>>, a colour pixel <<r, g, b>>; the colour pixels
\* drawn have every sum r + g + b
GreyPixels == {<<v>> : v \in 0..255}
ColourPixels ==
    {<<v, v, v>> : v \in 0..255} \cup {<<v, v, v + 1>> : v \in 0..254}
        \cup {<<v, v + 1, v + 1>> : v \in 0..254}

CharsetInputs == CHARSETS \cup {"a", "ab", "letters"}

AsciiInit ==
    /\ fnIn \in [fn : {"image_to_ascii"}, charset : CharsetInputs,
                 invert : BOOLEAN, color : {FALSE}, pixel : GreyPixels]
            \cup [fn : {"image_to_ascii"}, charset : CharsetInputs,
                  invert : BOOLEAN, color : {TRUE}, pixel : ColourPixels]
    /\ fnPc = "call"
    /\ fnOut = None

CallImageToAscii ==
    /\ fnPc = "call"
    /\ fnIn.fn = "image_to_ascii"
    /\ fnOut' = Some(ImageToAsciiChar(fnIn.charset, fnIn.invert, fnIn.color,
                                      fnIn.pixel))
    /\ fnPc' = "done"
    /\ UNCHANGED fnIn
    /\ FnAlone

\* ---- fonts.py: resolve_font ----

\* a path is its directory ("" for a relative path without one) and its
\* file name in pieces: the stem and the extensions appended to it

\* of the nine FONT_SEARCH_DIRS, two
FONT_SEARCH_DIRS == <<"/Library/Fonts", "/usr/share/fonts/truetype">>

\* of the seven PETME_VARIANTS, the first two
PETME_VARIANTS == <<"PetMe64", "PetMe">>

\* the first of the bold_braille_font_paths found on Linux
bold_braille_font_paths ==
    << [dir |-> "/usr/share/fonts/truetype/dejavu",
        file |-> <<"DejaVuSansMono-Bold", ".ttf">>] >>

\* the first of the braille_font_paths found on Linux
braille_font_paths ==
    << [dir |-> "/usr/share/fonts/truetype/dejavu",
        file |-> <<"DejaVuSansMono", ".ttf">>] >>

\* two of the monospace font_paths
font_paths ==
    << [dir |-> "/Library/Fonts", file |-> <<"Iosevka-Regular", ".ttf">>],
       [dir |-> "/usr/share/fonts/truetype/dejavu",
        file |-> <<"DejaVuSansMono", ".ttf">>] >>

\* pathlib: search_dir / filename; an absolute filename replaces search_dir
JoinPath(search_dir, filename) ==
    IF filename.dir # "" THEN filename
    ELSE [dir |-> search_dir, file |-> filename.file]

\* the first path of the list that exists
FirstExisting(paths, files) ==
    IF \E i \in 1..Len(paths) : paths[i] \in files
    THEN Some(paths[CHOOSE i \in 1..Len(paths) :
                        /\ paths[i] \in files
                        /\ \A k \in 1..(i - 1) : paths[k] \notin files])
    ELSE None

\* the candidates of a loop over names and, inside it, over the search
\* directories
Candidates(names) ==
    [k \in 1..(Len(names) * Len(FONT_SEARCH_DIRS)) |->
        JoinPath(FONT_SEARCH_DIRS[((k - 1) % Len(FONT_SEARCH_DIRS)) + 1],
                 names[((k - 1) \div Len(FONT_SEARCH_DIRS)) + 1])]

\* lines 183-192 with variant None
FindPetmeFont(files) ==
    FirstExisting(
        Candidates([i \in 1..Len(PETME_VARIANTS) |->
                       [dir |-> "", file |-> <<PETME_VARIANTS[i], ".ttf">>]]),
        files)

\* lines 202-208: name.ttf, name.ttc, name.otf in the search directories
ResolveByName(name, files) ==
    FirstExisting(
        Candidates(<< [dir |-> name.dir, file |-> Append(name.file, ".ttf")],
                      [dir |-> name.dir, file |-> Append(name.file, ".ttc")],
                      [dir |-> name.dir, file |-> Append(name.file, ".otf")] >>),
        files)

\* str.lower() of the charsets drawn
Lower(charset) == IF charset = "PETSCII" THEN "petscii" ELSE charset

ResolvedFont(path, is_bold) == [path |-> path, is_bold |-> is_bold]

\* lines 257-274
AutoSelect(charset, files) ==
    IF Lower(charset) = "petscii" /\ ~IsNone(FindPetmeFont(files))
    THEN ResolvedFont(FindPetmeFont(files), FALSE)
    ELSE IF Lower(charset) = "braille"
              /\ ~IsNone(FirstExisting(bold_braille_font_paths, files))
    THEN ResolvedFont(FirstExisting(bold_braille_font_paths, files), TRUE)
    ELSE IF Lower(charset) = "braille"
              /\ ~IsNone(FirstExisting(braille_font_paths, files))
    THEN ResolvedFont(FirstExisting(braille_font_paths, files), FALSE)
    ELSE ResolvedFont(FirstExisting(font_paths, files), FALSE)

\* lines 236-274; "" is the path without directory and without name
ResolveFont(charset, font_override, files) ==
    IF IsNone(font_override) \/ Get(font_override).file = <<>>
    THEN AutoSelect(charset, files)
    ELSE IF Get(font_override).dir # "" /\ Get(font_override) \in files
    THEN ResolvedFont(font_override, FALSE)
    ELSE IF ~IsNone(ResolveByName(Get(font_override), files))
    THEN ResolvedFont(ResolveByName(Get(font_override), files), FALSE)
    ELSE AutoSelect(charset, files)

\* the files that may be installed
FontFiles ==
    { [dir |-> "/opt/f", file |-> <<"Font", ".ttf">>],
      [dir |-> "/Library/Fonts", file |-> <<"PetMe", ".ttf">>],
      [dir |-> "/usr/share/fonts/truetype", file |-> <<"PetMe", ".ttf">>],
      [dir |-> "/Library/Fonts", file |-> <<"PetMe", ".ttc">>],
      [dir |-> "/usr/share/fonts/truetype", file |-> <<"PetMe64", ".ttf">>],
      [dir |-> "/usr/share/fonts/truetype/dejavu",
       file |-> <<"DejaVuSansMono-Bold", ".ttf">>],
      [dir |-> "/usr/share/fonts/truetype/dejavu",
       file |-> <<"DejaVuSansMono", ".ttf">>],
      [dir |-> "/Library/Fonts", file |-> <<"Iosevka-Regular", ".ttf">>] }

\* font_override: "", "PetMe", "NoSuchFont", "/opt/f/Font.ttf", "/opt/f/Font"
FontOverrides ==
    { [dir |-> "", file |-> <<>>],
      [dir |-> "", file |-> <<"PetMe">>],
      [dir |-> "", file |-> <<"NoSuchFont">>],
      [dir |-> "/opt/f", file |-> <<"Font", ".ttf">>],
      [dir |-> "/opt/f", file |-> <<"Font">>] }

FontInit ==
    /\ fnIn \in [fn : {"resolve_font"},
                 charset : {"petscii", "PETSCII", "braille", "classic"},
                 font_override : NoneOr(FontOverrides),
                 files : SUBSET FontFiles]
    /\ fnPc = "call"
    /\ fnOut = None

CallResolveFont ==
    /\ fnPc = "call"
    /\ fnIn.fn = "resolve_font"
    /\ fnOut' = Some(ResolveFont(fnIn.charset, fnIn.font_override, fnIn.files))
    /\ fnPc' = "done"
    /\ UNCHANGED fnIn
    /\ FnAlone

\* ---- presets.py: ColorScheme.blend_color ----

\* the sum bits of a[lo..hi] + b[lo..hi] + c, least significant first, and
\* the carry going out
RECURSIVE LongAdd(_, _, _, _, _)
LongAdd(a, b, lo, hi, c) ==
    IF lo = hi
    THEN [p |-> <<(a[lo] + b[lo] + c) % 2>>, c |-> (a[lo] + b[lo] + c) \div 2]
    ELSE LET mid == (lo + hi) \div 2
             below == LongAdd(a, b, lo, mid, c)
             above == LongAdd(a, b, mid + 1, hi, below.c)
         IN  [p |-> below.p \o above.p, c |-> above.c]

\* the difference bits of a[lo..hi] - b[lo..hi] - c, least significant
\* first, and the borrow going out
RECURSIVE LongSubtract(_, _, _, _, _)
LongSubtract(a, b, lo, hi, c) ==
    IF lo = hi
    THEN [p |-> <<(2 + a[lo] - b[lo] - c) % 2>>,
          c |-> IF a[lo] - b[lo] - c < 0 THEN 1 ELSE 0]
    ELSE LET mid == (lo + hi) \div 2
             below == LongSubtract(a, b, lo, mid, c)
             above == LongSubtract(a, b, mid + 1, hi, below.c)
         IN  [p |-> below.p \o above.p, c |-> above.c]

\* the bits of x at exponent exp >= x.exp, in len places
Aligned(x, exp, len) ==
    Zeros(exp - x.exp) \o x.bits \o Zeros(len - MantissaBits - (exp - x.exp))

\* places that hold both of two floats at the larger exponent
AlignedLen(x, y) ==
    MantissaBits + Max(x.exp, y.exp) - Min(x.exp, y.exp)

IsZero(x) == \A i \in 1..MantissaBits : x.bits[i] = 0

\* x + y for floats x, y >= 0
FloatAdd(x, y) ==
    IF IsZero(x) THEN y
    ELSE IF IsZero(y) THEN x
    ELSE LET exp == Max(x.exp, y.exp)
             len == AlignedLen(x, y)
             res == LongAdd(Reversed(Aligned(x, exp, len)),
                            Reversed(Aligned(y, exp, len)), 1, len, 0)
         IN  Round(<<res.c>> \o Reversed(res.p), exp + 1, FALSE)

\* x - y for floats x >= y >= 0
FloatSubtract(x, y) ==
    IF IsZero(y) THEN x
    ELSE LET exp == Max(x.exp, y.exp)
             len == AlignedLen(x, y)
             res == LongSubtract(Reversed(Aligned(x, exp, len)),
                                 Reversed(Aligned(y, exp, len)), 1, len, 0)
         IN  Round(Reversed(res.p), exp, FALSE)

\* the float written as the decimal tenths / 10
FloatOfTenths(tenths) == FloatDivide(FloatOfInt(tenths), 10)

\* lines 44-48 for one channel: min(255, int(c * inv + tint_c * blend))
BlendChannel(c, tint_c, blend) ==
    LET inv == FloatSubtract(FloatOfInt(1), blend)
    IN  Min(255, IntOfFloat(FloatAdd(FloatMultiply(inv, c),
                                     FloatMultiply(blend, tint_c))))

\* lines 38-49
BlendColor(scheme, r, g, b) ==
    << BlendChannel(r, scheme.tint[1], FloatOfTenths(scheme.blend)),
       BlendChannel(g, scheme.tint[2], FloatOfTenths(scheme.blend)),
       BlendChannel(b, scheme.tint[3], FloatOfTenths(scheme.blend)) >>

\* the tints of CRT_GREEN and C64_BLUE, black and white
Tints == {<<51, 255, 51>>, <<124, 112, 218>>, <<0, 0, 0>>, <<255, 255, 255>>}

\* blend in tenths: 0.0, 0.5, the default 0.8, 1.0
BlendTenths == {0, 5, 8, 10}

BlendInit ==
    /\ fnIn \in [fn : {"blend_color"},
                 scheme : [tint : Tints, blend : BlendTenths],
                 color : {<<v, v, 255 - v>> : v \in 0..255}]
    /\ fnPc = "call"
    /\ fnOut = None

CallBlendColor ==
    /\ fnPc = "call"
    /\ fnIn.fn = "blend_color"
    /\ fnOut' = Some(BlendColor(fnIn.scheme, fnIn.color[1], fnIn.color[2],
                                fnIn.color[3]))
    /\ fnPc' = "done"
    /\ UNCHANGED fnIn
    /\ FnAlone

\* ---- web/renderer.py: ansi_to_html ----

\* a frame is a sequence of pieces: a character, or one of the codes the
\* pattern of line 31 matches: \033[38;2;R;G;Bm, \033[48;2;R;G;Bm, \033[0m
MaxTextLen == 3

Ch(c) == [k |-> "ch", c |-> c, rgb |-> <<>>]
FgCode(rgb) == [k |-> "fg", c |-> "", rgb |-> rgb]
BgCode(rgb) == [k |-> "bg", c |-> "", rgb |-> rgb]
ResetCode == [k |-> "reset", c |-> "", rgb |-> <<>>]

IsCode(piece) == piece.k # "ch"

\* str.replace of one character by the characters of new
ReplaceChar(text, old, new) ==
    Flatten([i \in 1..Len(text) |->
                IF text[i] = Ch(old)
                THEN [j \in 1..Len(new) |-> Ch(new[j])]
                ELSE <<text[i]>>])

\* lines 78-84, with the ampersand replaced last
EscapeHtmlAmpLast(text) ==
    ReplaceChar(
        ReplaceChar(
            ReplaceChar(
                ReplaceChar(
                    ReplaceChar(text, "<", <<"&", "l", "t", ";">>),
                    ">", <<"&", "g", "t", ";">>),
                "\"", <<"&", "q", "u", "o", "t", ";">>),
            "'", <<"&", "#", "x", "2", "7", ";">>),
        "&", <<"&", "a", "m", "p", ";">>)

\* lines 78-84
EscapeHtml(text) ==
    ReplaceChar(
        ReplaceChar(
            ReplaceChar(
                ReplaceChar(
                    ReplaceChar(text, "&", <<"&", "a", "m", "p", ";">>),
                    "<", <<"&", "l", "t", ";">>),
                ">", <<"&", "g", "t", ";">>),
            "\"", <<"&", "q", "u", "o", "t", ";">>),
        "'", <<"&", "#", "x", "2", "7", ";">>)

\* lines 108-110: int((c * 0.2) + (tint_c * 0.8))
CrtChannel(c, tint_c) ==
    IntOfFloat(FloatAdd(FloatMultiply(FloatOfTenths(2), c),
                        FloatMultiply(FloatOfTenths(8), tint_c)))

CrtGreen == <<51, 255, 51>>

\* a span with its style, or the bare text when color and bg are None
Html(color, bg, text) == [color |-> color, bg |-> bg, text |-> text]

\* lines 87-123
WrapText(text, color, bg, crt) ==
    LET tinted == IF crt /\ IsNone(color) THEN Some(CrtGreen) ELSE color
    IN  Html(IF ~IsNone(tinted) /\ crt
             THEN Some(<< CrtChannel(Get(tinted)[1], 51),
                          CrtChannel(Get(tinted)[2], 255),
                          CrtChannel(Get(tinted)[3], 51) >>)
             ELSE tinted,
             bg, EscapeHtml(text))

\* lines 46-56 with reset leaving the background as it is
AfterCodeResetKeepsBg(code, st) ==
    IF code.k = "fg" THEN [st EXCEPT !.color = Some(code.rgb)]
    ELSE IF code.k = "bg" THEN [st EXCEPT !.bg = Some(code.rgb)]
    ELSE [st EXCEPT !.color = None]

\* lines 46-56: current_color and current_bg after a code
AfterCode(code, st) ==
    IF code.k = "fg" THEN [st EXCEPT !.color = Some(code.rgb)]
    ELSE IF code.k = "bg" THEN [st EXCEPT !.bg = Some(code.rgb)]
    ELSE [st EXCEPT !.color = None, !.bg = None]

\* lines 40-63: the loop over the matches from piece i on; st holds
\* current_color, current_bg, the text since the last code and result
RECURSIVE ScanFrom(_, _, _, _)
ScanFrom(ascii_text, i, st, crt) ==
    LET flushed ==
            IF st.text = <<>> THEN st
            ELSE [st EXCEPT
                    !.result = Append(@, WrapText(st.text, st.color, st.bg, crt)),
                    !.text = <<>>]
    IN  IF i > Len(ascii_text) THEN flushed.result
        ELSE IF IsCode(ascii_text[i])
        THEN ScanFrom(ascii_text, i + 1, AfterCode(ascii_text[i], flushed), crt)
        ELSE ScanFrom(ascii_text, i + 1,
                      [st EXCEPT !.text = Append(@, ascii_text[i])], crt)

\* lines 18-73: the strings joined into the result
AnsiToHtml(ascii_text, crt) ==
    LET plain == Html(IF crt THEN Some(CrtGreen) ELSE None, None,
                      EscapeHtml(ascii_text))
        result == ScanFrom(ascii_text, 1,
                           [color |-> None, bg |-> None, text |-> <<>>,
                            result |-> <<>>], crt)
    IN  IF ascii_text = <<>> THEN <<>>
        ELSE IF \A i \in 1..Len(ascii_text) : ~IsCode(ascii_text[i])
        THEN <<plain>>
        ELSE IF result = <<>> THEN <<plain>>
        ELSE result

\* the pieces drawn: a letter, the five special characters, two
\* foreground colours, a background colour and the reset
Pieces ==
    {Ch(c) : c \in {"a", "&", "<", ">", "\"", "'"}}
        \cup {FgCode(<<255, 0, 0>>), FgCode(<<51, 255, 51>>),
              BgCode(<<5, 5, 5>>), ResetCode}

HtmlInit ==
    /\ fnIn \in [fn : {"ansi_to_html"},
                 ascii_text : SeqsUpTo(Pieces, MaxTextLen),
                 crt : BOOLEAN]
    /\ fnPc = "call"
    /\ fnOut = None

CallAnsiToHtml ==
    /\ fnPc = "call"
    /\ fnIn.fn = "ansi_to_html"
    /\ fnOut' = Some(AnsiToHtml(fnIn.ascii_text, fnIn.crt))
    /\ fnPc' = "done"
    /\ UNCHANGED fnIn
    /\ FnAlone

\* ---- subtitle.py: parse_srt ----

\* a string is the sequence of its characters, a file the sequence of its lines
MaxLines == 7

DigitChars == <<"0", "1", "2", "3", "4", "5", "6", "7", "8", "9">>

IsDigit(c) == \E i \in 1..10 : DigitChars[i] = c

\* int() of a string of digits, None for ValueError
RECURSIVE IntOfDigits(_)
IntOfDigits(s) ==
    IF s = <<>> THEN None
    ELSE IF \E i \in 1..Len(s) : ~IsDigit(s[i]) THEN None
    ELSE IF Len(s) = 1 THEN Some((CHOOSE i \in 1..10 : DigitChars[i] = s[1]) - 1)
    ELSE Some(10 * Get(IntOfDigits(SubSeq(s, 1, Len(s) - 1)))
              + Get(IntOfDigits(<<s[Len(s)]>>)))

\* the index after a match of \d{2}:\d{2}:\d{2}[,.]\d{3} at index i, 0 for no match
TimestampEnd(s, i) ==
    IF /\ i + 11 <= Len(s)
       /\ \A k \in {0, 1, 3, 4, 6, 7, 9, 10, 11} : IsDigit(s[i + k])
       /\ s[i + 2] = ":" /\ s[i + 5] = ":"
       /\ s[i + 8] \in {",", "."}
    THEN i + 12 ELSE 0

\* the index after a match of \s* at index i
RECURSIVE SpacesEnd(_, _)
SpacesEnd(s, i) == IF i <= Len(s) /\ s[i] = " " THEN SpacesEnd(s, i + 1) ELSE i

\* re.match of lines 431-434 on a line: the two groups, None for no match;
\* the pattern is matched at the start of the line and need not reach its end
MatchTimestampLine(s) ==
    LET a == TimestampEnd(s, 1)
        b == SpacesEnd(s, a)
        c == IF b + 2 <= Len(s) /\ SubSeq(s, b, b + 2) = <<"-", "-", ">">>
             THEN SpacesEnd(s, b + 3) ELSE 0
        e == IF c = 0 THEN 0 ELSE TimestampEnd(s, c)
    IN IF a = 0 \/ c = 0 \/ e = 0 THEN None
       ELSE Some(<<SubSeq(s, 1, a - 1), SubSeq(s, c, e - 1)>>)

\* _parse_timestamp, lines 387-402: "HH:MM:SS,mmm" in milliseconds, None for
\* ValueError or IndexError; the code returns hours * 3600.0 + minutes * 60.0
\* + float("SS.mmm"), the float next to that many thousandths of a second
ParseTimestamp(timestamp_str) ==
    LET time_str == Strip(timestamp_str)
        hours == IntOfDigits(SubSeq(time_str, 1, 2))
        minutes == IntOfDigits(SubSeq(time_str, 4, 5))
        whole == IntOfDigits(SubSeq(time_str, 7, 8))
        thousandths == IntOfDigits(SubSeq(time_str, 10, 12))
    IN IF Len(time_str) # 12 \/ IsNone(hours) \/ IsNone(minutes)
          \/ IsNone(whole) \/ IsNone(thousandths) THEN None
       ELSE Some(Get(hours) * 3600000 + Get(minutes) * 60000
                 + Get(whole) * 1000 + Get(thousandths))

\* line 449 joining the lines without the space
RECURSIVE JoinTextNoSpace(_)
JoinTextNoSpace(parts) ==
    IF parts = <<>> THEN <<>> ELSE Head(parts) \o JoinTextNoSpace(Tail(parts))

\* line 449: " ".join(...)
RECURSIVE JoinText(_)
JoinText(parts) ==
    IF parts = <<>> THEN <<>>
    ELSE IF Len(parts) = 1 THEN parts[1]
    ELSE Head(parts) \o <<" ">> \o JoinText(Tail(parts))

\* line 449: the stripped lines that are not empty
RECURSIVE TextParts(_)
TextParts(lines) ==
    IF lines = <<>> THEN <<>>
    ELSE (IF Strip(Head(lines)) = <<>> THEN <<>> ELSE <<Strip(Head(lines))>>)
         \o TextParts(Tail(lines))

\* lines 421-422: re.split(r"\n\s*\n", content.strip()) and, of each block,
\* block.strip().split("\n"): the runs of lines between lines of white space
\* (a file without such a run gives the one block of the one line "")
RECURSIVE SplitBlocks(_, _)
SplitBlocks(lines, block) ==
    IF lines = <<>> THEN (IF block = <<>> THEN <<>> ELSE <<block>>)
    ELSE IF Strip(Head(lines)) = <<>>
    THEN (IF block = <<>> THEN <<>> ELSE <<block>>) \o SplitBlocks(Tail(lines), <<>>)
    ELSE SplitBlocks(Tail(lines), Append(block, Head(lines)))

\* lines 424-451: the segment of one block, <<>> for a block that is skipped
BlockSegments(lines) ==
    IF Len(lines) < 3 THEN <<>>
    ELSE LET match == MatchTimestampLine(Strip(lines[2])) IN
         IF IsNone(match) THEN <<>>
         ELSE LET start_sec == ParseTimestamp(Get(match)[1])
                  end_sec == ParseTimestamp(Get(match)[2])
                  text == JoinText(TextParts(SubSeq(lines, 3, Len(lines))))
              IN IF IsNone(start_sec) \/ IsNone(end_sec) THEN <<>>
                 ELSE IF text = <<>> THEN <<>>
                 ELSE <<<<Get(start_sec), Get(end_sec), text>>>>

RECURSIVE SegmentsOf(_)
SegmentsOf(blocks) ==
    IF blocks = <<>> THEN <<>>
    ELSE BlockSegments(Head(blocks)) \o SegmentsOf(Tail(blocks))

\* parse_srt, lines 406-457; read: how read_text ended
ParseSrt(read, lines) ==
    IF read # "ok" THEN <<>>
    ELSE LET blocks == SplitBlocks(lines, <<>>) IN
         SegmentsOf(IF blocks = <<>> THEN <<<<<<>>>>>> ELSE blocks)

\* the lines of the files: a line, what it is, for a timestamp line its two
\* times in milliseconds, and the line without the white space around it;
\* the separator is a line of one space (an empty line is split on alike)
SrtLines ==
    {[chars |-> <<" ">>,
      kind |-> "blank", start |-> 0, end |-> 0,
      stripped |-> <<>>],
     [chars |-> <<"0", "0", ":", "0", "0", ":", "0", "1", ",", "0", "0", "0", " ", "-", "-", ">", " ", "0", "0", ":", "0", "0", ":", "0", "2", ",", "5", "0", "0">>,
      kind |-> "ts", start |-> 1000, end |-> 2500,
      stripped |-> <<"0", "0", ":", "0", "0", ":", "0", "1", ",", "0", "0", "0", " ", "-", "-", ">", " ", "0", "0", ":", "0", "0", ":", "0", "2", ",", "5", "0", "0">>],
     [chars |-> <<" ", "0", "1", ":", "0", "2", ":", "0", "3", ".", "0", "0", "4", "-", "-", ">", "0", "1", ":", "0", "2", ":", "0", "4", ".", "0", "0", "5", " ", "X", "1", ":", "0">>,
      kind |-> "ts", start |-> 3723004, end |-> 3724005,
      stripped |-> <<"0", "1", ":", "0", "2", ":", "0", "3", ".", "0", "0", "4", "-", "-", ">", "0", "1", ":", "0", "2", ":", "0", "4", ".", "0", "0", "5", " ", "X", "1", ":", "0">>],
     [chars |-> <<"0", ":", "0", "0", ":", "0", "1", ",", "0", "0", "0", " ", "-", "-", ">", " ", "0", "0", ":", "0", "0", ":", "0", "2", ",", "5", "0", "0">>,
      kind |-> "bad", start |-> 0, end |-> 0,
      stripped |-> <<"0", ":", "0", "0", ":", "0", "1", ",", "0", "0", "0", " ", "-", "-", ">", " ", "0", "0", ":", "0", "0", ":", "0", "2", ",", "5", "0", "0">>],
     [chars |-> <<" ", "a", " ">>,
      kind |-> "text", start |-> 0, end |-> 0,
      stripped |-> <<"a">>]}

\* how srt_path.read_text(encoding="utf-8") ends
SrtReads == {"ok", "FileNotFoundError", "UnicodeDecodeError"}

\* parse_srt(srt_path) was just called
ParseSrtInit ==
    /\ \/ fnIn \in [fn : {"parse_srt"}, read : {"ok"}, lines : SeqsUpTo(SrtLines, MaxLines)]
       \/ fnIn \in [fn : {"parse_srt"}, read : SrtReads \ {"ok"}, lines : {<<>>}]
    /\ fnPc = "call"
    /\ fnOut = None

CallParseSrt ==
    /\ fnPc = "call" /\ fnIn.fn = "parse_srt"
    /\ fnOut' = Some(ParseSrt(fnIn.read, [i \in 1..Len(fnIn.lines) |-> fnIn.lines[i].chars]))
    /\ fnPc' = "done"
    /\ UNCHANGED fnIn
    /\ FnAlone

\* ---- mp4_exporter.py: render_ascii_frame, the colour of a character ----

\* lines 303-304: brightness = (r + g + b) / 3.0
FillBrightness(rgb) == FloatDivide(FloatOfInt(rgb[1] + rgb[2] + rgb[3]), 3)

\* min(255, int(c * boost)), the boost in tenths
Boosted(c, tenths) == Min(255, IntOfFloat(FloatMultiply(FloatOfTenths(tenths), c)))

\* min(255, int(c * factor + add)), the factor in tenths
Lightened(c, tenths, add) ==
    Min(255, IntOfFloat(FloatAdd(FloatMultiply(FloatOfTenths(tenths), c),
                                 FloatOfInt(add))))

\* lines 345-352, the greyscale boost: max(0, int(c * 0.5)) below 128
FillColorGrey(braille, rgb) ==
    IF IntOfFloat(FillBrightness(rgb)) < 128
    THEN [i \in 1..3 |-> Max(0, IntOfFloat(FloatMultiply(FloatOfTenths(5), rgb[i])))]
    ELSE [i \in 1..3 |-> Lightened(rgb[i], 13, 30)]

\* lines 306-344: fill_color of current_color in colour rendering; braille:
\* prefer_braille_font and a font whose path holds "Braille".  A brightness
\* is not negative, so it is below a bound exactly when its integer part is.
FillColor(braille, rgb) ==
    LET brightness == IntOfFloat(FillBrightness(rgb)) IN
    IF rgb = <<0, 0, 0>> THEN <<0, 0, 0>>
    ELSE IF brightness < 30
    THEN [i \in 1..3 |-> Boosted(rgb[i], IF braille THEN 85 ELSE 45)]
    ELSE IF brightness < 64
    THEN [i \in 1..3 |-> Boosted(rgb[i], IF braille THEN 65 ELSE 35)]
    ELSE IF brightness < 128
    THEN [i \in 1..3 |-> Boosted(rgb[i], IF braille THEN 40 ELSE 22)]
    ELSE [i \in 1..3 |-> IF braille THEN Lightened(rgb[i], 20, 40)
                         ELSE Lightened(rgb[i], 12, 20)]

\* the values of a colour channel: the ends and both sides of each threshold
Channels == {0, 1, 5, 29, 30, 63, 64, 100, 127, 128, 200, 255}

\* a character of colour current_color is about to be drawn (line 299)
FillInit ==
    /\ fnIn \in [fn : {"fill_color"}, braille : BOOLEAN,
                 current_color : Channels \X Channels \X Channels]
    /\ fnPc = "call"
    /\ fnOut = None

CallFillColor ==
    /\ fnPc = "call" /\ fnIn.fn = "fill_color"
    /\ fnOut' = Some(FillColor(fnIn.braille, fnIn.current_color))
    /\ fnPc' = "done"
    /\ UNCHANGED fnIn
    /\ FnAlone

(***************************************************************************)
(* GET /api/jobs/{job_id}/stream.  event_generator is a coroutine of the   *)
(* event loop; it is suspended at each yield and at the sleep, and the     *)
(* task and the other handlers run in between.                             *)
(***************************************************************************)
StrIdle ==
    /\ strPc = "idle"
    /\ strJob = 0
    /\ strLocal = [last_status |-> None, status |-> None]
    /\ strOut = [last |-> None, final |-> 0]

\* line 291 without the error status
FinalStatusCompletedOnly(status) == status = COMPLETED

\* line 291: status in (JobStatus.COMPLETED, JobStatus.ERROR)
FinalStatus(status) == status \in {COMPLETED, ERROR}

\* line 282: status != last_status or progress.get("current", 0) % 10 == 0
StreamEmits(status, last_status, progress) ==
    Some(status) # last_status \/ progress.current % 10 = 0

\* lines 283-288: the event of a job
StatusEvent(job) ==
    [status |-> job.status, progress |-> job.progress, error |-> job.error]

\* line 275
NotFoundEvent == [error |-> "Job not found"]

\* lines 264-268 and 296: 404 for an unknown job, else the response starts
StreamOpen(id) ==
    /\ strPc = "idle"
    /\ strJob' = id
    /\ strPc' = IF id \in DOMAIN jobs THEN "poll" ELSE "rejected"
    /\ UNCHANGED <<strLocal, strOut>>
    /\ StrAlone

\* lines 273-289 and, when nothing is sent, 291-294: one turn of the loop up
\* to its yield or its sleep; after the yield of line 275 the generator
\* only breaks
StreamPoll ==
    /\ strPc = "poll"
    /\ IF strJob \notin DOMAIN jobs THEN
           /\ strOut' = [strOut EXCEPT !.last = Some(NotFoundEvent)]
           /\ strPc' = "closed"
           /\ UNCHANGED strLocal
       ELSE LET job == jobs[strJob] IN
           /\ strLocal' = [strLocal EXCEPT !.status = Some(job.status)]
           /\ IF StreamEmits(job.status, strLocal.last_status, job.progress) THEN
                  /\ strOut' = [last |-> Some(StatusEvent(job)),
                                final |-> IF job.status \in {COMPLETED, ERROR}
                                          THEN strOut.final + 1 ELSE strOut.final]
                  /\ strPc' = "emitted"
              ELSE
                  /\ strPc' = IF FinalStatus(job.status) THEN "closed" ELSE "sleep"
                  /\ UNCHANGED strOut
    /\ UNCHANGED strJob
    /\ StrAlone

\* lines 289-294: after the yield, with the status read before it
StreamResume ==
    /\ strPc = "emitted"
    /\ strLocal' = [strLocal EXCEPT !.last_status = strLocal.status]
    /\ strPc' = IF FinalStatus(Get(strLocal.status)) THEN "closed" ELSE "sleep"
    /\ UNCHANGED <<strJob, strOut>>
    /\ StrAlone

\* line 294: asyncio.sleep(0.5) is over
StreamWake ==
    /\ strPc = "sleep"
    /\ strPc' = "poll"
    /\ UNCHANGED <<strJob, strLocal, strOut>>
    /\ StrAlone

StreamStep == StreamPoll \/ StreamResume \/ StreamWake

(***************************************************************************)
(* _check_rate_limit in the worker threads.  export_webm and               *)
(* export_mp4_route are plain functions, which the server runs in a pool   *)
(* of threads; a thread can be switched out between two statements, so     *)
(* reading _RATE_STATE (lines 117-122) and storing the new list (123-124)  *)
(* are two steps.  Requests of one client address.                         *)
(***************************************************************************)
MaxWorkers == 2       \* threads of the pool handling requests at a time
MaxPassed == 4        \* requests are sent until this many have passed

Workers == 1..MaxWorkers

RateClient == "198.51.100.7"

WorkerAt(pc, now, hits, out) == [pc |-> pc, now |-> now, hits |-> hits, out |-> out]

RlIdle ==
    /\ rlLimit = RateLimit
    /\ rlThreads = [w \in Workers |-> WorkerAt("idle", 0, <<>>, 0)]
    /\ rlPassed = <<>>

\* the process starts with the limit of its environment
RateInit ==
    /\ rlLimit \in {0, RateLimit}
    /\ rlThreads = [w \in Workers |-> WorkerAt("idle", 0, <<>>, 0)]
    /\ rlPassed = <<>>

RlAlone ==
    /\ UNCHANGED <<apiEnv, apiDirs, apiResp>>
    /\ UNCHANGED <<webVars, convVars, expVars, srtVars, setVars, cliVars, rndVars,
                   mp4Vars, strVars, plVars, capVars, fnVars>>

\* lines 115-122: a thread enters _check_rate_limit, reads the clock and the
\* client's list and tests its length; out is the status it answers, 0 for
\* a return
RateRead(w) ==
    /\ rlThreads[w].pc = "idle"
    /\ Len(rlPassed) < MaxPassed
    /\ LET hits == RecentHits(IF RateClient \in DOMAIN rateState
                              THEN rateState[RateClient] ELSE <<>>, apiNow)
       IN
       IF rlLimit <= 0 THEN
           /\ rlPassed' = Append(rlPassed, apiNow)
           /\ rlThreads' = [rlThreads EXCEPT ![w] = WorkerAt("idle", apiNow, <<>>, 0)]
       ELSE IF Len(hits) >= rlLimit THEN
           /\ rlThreads' = [rlThreads EXCEPT ![w] = WorkerAt("idle", apiNow, hits, 429)]
           /\ UNCHANGED rlPassed
       ELSE
           /\ rlThreads' = [rlThreads EXCEPT ![w] = WorkerAt("store", apiNow, hits, 0)]
           /\ UNCHANGED rlPassed
    /\ UNCHANGED <<rlLimit, rateState, apiNow>>
    /\ RlAlone

\* lines 123-124: hits.append(now); _RATE_STATE[client_ip] = hits
RateStore(w) ==
    /\ rlThreads[w].pc = "store"
    /\ rateState' = [c \in DOMAIN rateState \cup {RateClient} |->
                        IF c = RateClient
                        THEN Append(rlThreads[w].hits, rlThreads[w].now)
                        ELSE rateState[c]]
    /\ rlPassed' = Append(rlPassed, rlThreads[w].now)
    /\ rlThreads' = [rlThreads EXCEPT ![w].pc = "idle"]
    /\ UNCHANGED <<rlLimit, apiNow>>
    /\ RlAlone

RateNext ==
    \/ \E w \in Workers : RateRead(w) \/ RateStore(w)
    \/ ApiTick

(***************************************************************************)
(* player.py: TerminalPlayer.play.  A signal handler runs between two      *)
(* statements of the main thread, so every print is a step; the handler    *)
(* (lines 54-58) runs to its end and raises SystemExit where the signal    *)
(* arrived.  Subtitles are left out.                                       *)
(***************************************************************************)
MaxPlayFrames == 2    \* frames of a player
MaxLoops == 2         \* passes over the frames before playback is left alone

CURSOR_HOME == "CURSOR_HOME"
CURSOR_HIDE == "CURSOR_HIDE"
CURSOR_SHOW == "CURSOR_SHOW"
CLEAR_SCREEN == "CLEAR_SCREEN"
RESET == "RESET"
CRT_GREEN == "CRT_GREEN"
CRT_BG == "CRT_BG"

\* a frame is a text the terminal's encoding can take, or one it cannot
PlayFrames == {"frame a", "frame b", "unencodable"}

PlayAt(at, i, pass) == [at |-> at, i |-> i, pass |-> pass]

PlIdle ==
    /\ plArgs = [frames |-> <<>>, interrupted |-> FALSE, crt |-> FALSE, loop |-> FALSE,
                 progress |-> FALSE]
    /\ plPc = PlayAt("idle", 0, 0)
    /\ plFlag = FALSE
    /\ plWay = ""
    /\ plOut = <<>>

\* play was just called on a player, whose flag a caller may have set
PlayInit ==
    /\ plArgs \in [frames : SeqsUpTo(PlayFrames, MaxPlayFrames), interrupted : BOOLEAN,
                   crt : BOOLEAN, loop : BOOLEAN, progress : BOOLEAN]
    /\ plPc = PlayAt("hide", 0, 1)
    /\ plFlag = plArgs.interrupted
    /\ plWay = ""
    /\ plOut = <<>>

PlAlone ==
    UNCHANGED <<webVars, convVars, expVars, apiVars, srtVars, setVars, cliVars, rndVars,
                mp4Vars, strVars, rlVars, capVars, fnVars>>

\* the statements of the try block, lines 149-181
InTry(at) ==
    at \in {"check", "home", "green", "frame", "reset", "progress", "sleep", "next"}

\* lines 183-184 as a plain statement after the loop, without try and finally
PlayFinallyOnReturn(way) == IF way = "return" THEN "show" ELSE "ended"

\* lines 183-184: the finally clause runs cleanup on every way out of the try block
PlayFinally(way) == "show"

\* line 151 stopping one frame early
ForAtDroppingLast(i, pass) ==
    IF i < Len(plArgs.frames) THEN PlayAt("check", i, pass)
    ELSE PlayAt("next", 0, pass)

\* line 151: for i, frame in enumerate(self.frames), at frame number i
ForAt(i, pass) ==
    IF i <= Len(plArgs.frames) THEN PlayAt("check", i, pass)
    ELSE PlayAt("next", 0, pass)

\* lines 142-147
PlayPrelude ==
    /\ plPc.at \in {"hide", "bg", "clear"}
    /\ CASE plPc.at = "hide" ->
              /\ plOut' = Append(plOut, CURSOR_HIDE)
              /\ plPc' = PlayAt(IF plArgs.crt THEN "bg" ELSE "clear", 0, 1)
         [] plPc.at = "bg" ->
              /\ plOut' = Append(plOut, CRT_BG)
              /\ plPc' = PlayAt("clear", 0, 1)
         [] plPc.at = "clear" ->
              /\ plOut' = Append(plOut, CLEAR_SCREEN)
              /\ plPc' = ForAt(1, 1)
    /\ UNCHANGED <<plArgs, plFlag, plWay>>
    /\ PlAlone

\* lines 152-174, one statement of the body for frame plPc.i; print(frame)
\* raises UnicodeEncodeError for a frame the terminal cannot take
PlayFrame ==
    /\ plPc.at \in {"check", "home", "green", "frame", "reset", "progress", "sleep"}
    /\ LET i == plPc.i
           pass == plPc.pass
           after_frame == IF plArgs.progress THEN "progress" ELSE "sleep"
       IN
       CASE plPc.at = "check" ->
              IF plFlag
              THEN /\ plWay' = "return"
                   /\ plPc' = PlayAt(PlayFinally("return"), i, pass)
                   /\ UNCHANGED plOut
              ELSE /\ plPc' = PlayAt("home", i, pass)
                   /\ UNCHANGED <<plWay, plOut>>
         [] plPc.at = "home" ->
              /\ plOut' = Append(plOut, CURSOR_HOME)
              /\ plPc' = PlayAt(IF plArgs.crt THEN "green" ELSE "frame", i, pass)
              /\ UNCHANGED plWay
         [] plPc.at = "green" ->
              /\ plOut' = Append(plOut, CRT_GREEN)
              /\ plPc' = PlayAt("frame", i, pass)
              /\ UNCHANGED plWay
         [] plPc.at = "frame" ->
              IF plArgs.frames[i] = "unencodable"
              THEN /\ plWay' = "UnicodeEncodeError"
                   /\ plPc' = PlayAt(PlayFinally("UnicodeEncodeError"), i, pass)
                   /\ UNCHANGED plOut
              ELSE /\ plOut' = Append(plOut, plArgs.frames[i])
                   /\ plPc' = PlayAt(IF plArgs.crt THEN "reset" ELSE after_frame, i, pass)
                   /\ UNCHANGED plWay
         [] plPc.at = "reset" ->
              /\ plOut' = Append(plOut, RESET)
              /\ plPc' = PlayAt(after_frame, i, pass)
              /\ UNCHANGED plWay
         [] plPc.at = "progress" ->
              /\ plOut' = Append(plOut, "progress bar")
              /\ plPc' = PlayAt("sleep", i, pass)
              /\ UNCHANGED plWay
         [] plPc.at = "sleep" ->
              /\ plOut' = Append(plOut, "sleep")
              /\ plPc' = ForAt(i + 1, pass)
              /\ UNCHANGED plWay
    /\ UNCHANGED <<plArgs, plFlag>>
    /\ PlAlone

\* lines 176-181: after the last frame of a pass
PlayRepeat ==
    /\ plPc.at = "next"
    /\ IF ~plArgs.loop THEN
           /\ plWay' = "return"
           /\ plPc' = PlayAt(PlayFinally("return"), 0, plPc.pass)
           /\ UNCHANGED plOut
       ELSE
           /\ plPc.pass < MaxLoops
           /\ plOut' = Append(plOut, CURSOR_HOME)
           /\ plPc' = ForAt(1, plPc.pass + 1)
           /\ UNCHANGED plWay
    /\ UNCHANGED <<plArgs, plFlag>>
    /\ PlAlone

\* cleanup, lines 60-63, called by the finally clause
PlayCleanup ==
    /\ plPc.at \in {"show", "unset"}
    /\ IF plPc.at = "show"
       THEN /\ plOut' = Append(plOut, CURSOR_SHOW)
            /\ plPc' = [plPc EXCEPT !.at = "unset"]
       ELSE /\ plOut' = Append(plOut, RESET)
            /\ plPc' = [plPc EXCEPT !.at = "ended"]
    /\ UNCHANGED <<plArgs, plFlag, plWay>>
    /\ PlAlone

\* Ctrl-C while play runs: _signal_handler, lines 54-58, sets the flag, calls
\* cleanup and raises SystemExit, which passes through the finally clause
\* when the signal arrived inside the try block
PlaySigint ==
    /\ plPc.at \notin {"idle", "ended"}
    /\ plFlag' = TRUE
    /\ plOut' = plOut \o <<CURSOR_SHOW, RESET>>
    /\ plWay' = "SystemExit"
    /\ plPc' = [plPc EXCEPT !.at = IF InTry(plPc.at) THEN PlayFinally("SystemExit")
                                   ELSE "ended"]
    /\ UNCHANGED plArgs
    /\ PlAlone

\* something else than the handler sets player.interrupted while play runs
PlaySetInterrupted ==
    /\ plPc.at \notin {"idle", "ended"}
    /\ ~plFlag
    /\ plFlag' = TRUE
    /\ UNCHANGED <<plArgs, plPc, plWay, plOut>>
    /\ PlAlone

PlayStep == PlayPrelude \/ PlayFrame \/ PlayRepeat \/ PlayCleanup

PlayNext ==
    \/ PlayPrelude
    \/ PlayFrame
    \/ PlayRepeat
    \/ PlayCleanup
    \/ PlaySigint
    \/ PlaySetInterrupted

\* no function is being called on its own
FnIdle ==
    /\ fnIn = [fn |-> ""]
    /\ fnPc = "idle"
    /\ fnOut = None

\* the clients create at most MaxJobs jobs
CapInit == jobCap = MaxJobs

AsideIdle == CapInit /\ FnIdle /\ PlIdle /\ RlIdle /\ StrIdle

SrtCliIdle == SrtIdle /\ SetIdle /\ CliIdle
RenderIdle == RndIdle /\ Mp4Idle
RestIdle == SrtCliIdle /\ RenderIdle

\* the server just started, nothing else running
InitWeb == WebInit /\ ConvIdle /\ ExpIdle /\ ApiIdle /\ RestIdle /\ AsideIdle

SpecWeb == InitWeb /\ [][WebNext]_vars

\* C1: a job-result endpoint (frames, frame, export/sh, export/mp4) answers 404
\* for an id that is not in the jobs table and 400 for a job whose status is
\* not 'completed'; it answers 200 (frames or a file) only for a completed job.
JobResultEndpoints == {"frames", "frame", "export_sh", "export_mp4"}

C1_ResultsOnlyWhenCompleted ==
    resp.ep \in JobResultEndpoints =>
        /\ resp.id \notin DOMAIN jobs => resp.code = 404
        /\ (resp.id \in DOMAIN jobs /\ jobs[resp.id].status # COMPLETED)
              => resp.code = 400
        /\ resp.code = 200 =>
              (resp.id \in DOMAIN jobs /\ jobs[resp.id].status = COMPLETED)

\* a job in status 'converting' was refused with 400
C1_Witness ==
    /\ resp.ep = "export_sh" /\ resp.code = 400
    /\ resp.id \in DOMAIN jobs /\ jobs[resp.id].status = CONVERTING

(***************************************************************************)
(* POST /api/convert alone, over forms at the edges of its validation.     *)
(***************************************************************************)
ConvertForms ==
    [width : NoneOr({19, 20, 320, 321}), fps : NoneOr({0, 1, 30, 31}),
     color : {None}, invert : {None}, edge : {None},
     charset : NoneOr({"", "x", "xy"}), crt : {None}, subtitle : {FALSE},
     preset : {""}]

ConvertNext == \E form \in ConvertForms, ffmpeg \in BOOLEAN : ConvertVideo(form, ffmpeg)

SpecConvert == InitWeb /\ [][ConvertNext]_vars

\* the form of the request that resp answers
RespForm == resp.arg[1]

\* C2: POST /api/convert answers 400 when the resolved width is outside
\* 20..320, the resolved fps is outside 1..30, or the charset is neither a
\* predefined name nor a string of at least 2 characters; a step that answers
\* 400 leaves the jobs table, the tasks and the work directories as they were.
C2_Invalid(form) ==
    LET r == WebResolve(form) IN
    \/ r.width \notin 20..320
    \/ r.fps \notin 1..30
    \/ (r.charset \notin CHARSETS /\ ~(Len(r.charset) >= 2))

C2_RejectedWithoutJob ==
    /\ [](resp.ep = "convert" /\ C2_Invalid(RespForm) => resp.code = 400)
    /\ [][(resp'.ep = "convert" /\ resp'.code = 400)
            => (jobs' = jobs /\ tasks' = tasks /\ workDirs' = workDirs)]_vars

\* a request with fps 31 was refused while a job was in the table
C2_Witness ==
    /\ resp.ep = "convert" /\ resp.code = 400
    /\ RespForm.fps = Some(31) /\ RespForm.width = Some(320)
    /\ DOMAIN jobs # {}

(***************************************************************************)
(* convert_all on its own.                                                 *)
(***************************************************************************)
\* convert_all called with some list of paths
InitConv == ConvInit /\ WebInit /\ ExpIdle /\ ApiIdle /\ RestIdle /\ AsideIdle

SpecConv == InitConv /\ [][ConvNext]_vars

Count(seq, x) == Cardinality({i \in 1..Len(seq) : seq[i] = x})

\* C3: convert_all returns one ASCII string per input path, in ascending order
\* of frame number, whatever the order the workers finished in and the order
\* the paths were passed in; no path gives the empty list.
C3_OnePerFrameInOrder ==
    ~IsNone(convOut) =>
        LET out == Get(convOut) IN
        /\ Len(out) = Len(frame_paths)
        /\ \A p \in FramePaths : Count(out, AsciiOf(p)) = Count(frame_paths, p)
        /\ \A i \in 1..Len(out), j \in 1..Len(out) :
              i < j => out[i].art_of.stem[2] <= out[j].art_of.stem[2]
        /\ frame_paths = <<>> => out = <<>>

\* three paths passed in descending order of frame number, all converted
C3_Witness ==
    /\ ~IsNone(convOut)
    /\ Len(frame_paths) = 3
    /\ frame_paths[1].stem[2] > frame_paths[2].stem[2]
    /\ frame_paths[2].stem[2] > frame_paths[3].stem[2]

(***************************************************************************)
(* export on its own, and the script read back as the test does.           *)
(***************************************************************************)
InitExport == ExpInit /\ WebInit /\ ConvIdle /\ ApiIdle /\ RestIdle /\ AsideIdle

SpecExport == InitExport /\ [][ExpNext]_vars

\* str.split("\n")
RECURSIVE SplitLinesFrom(_, _)
SplitLinesFrom(line, text) ==
    IF text = <<>> THEN <<line>>
    ELSE IF Head(text) = "\n" THEN <<line>> \o SplitLinesFrom(<<>>, Tail(text))
    ELSE SplitLinesFrom(Append(line, Head(text)), Tail(text))

\* the lines of the script after the template and the "\n" written behind it
FrameLines ==
    LET after == Len(ExportHeader(template, expArgs)) + 1
    IN SplitLinesFrom(<<>>, SubSeq(Get(script), after + 1, Len(Get(script))))

ReadFrame(line) == Utf8Decode(GzipDecompress(Base64Decode(line)))

\* C4: after the template the script holds, per input frame and in input order,
\* one '---FRAME---' line followed by one line of data, and nothing else;
\* base64-decoding and gunzipping the data line gives the frame back unchanged.
C4_FramesRoundTrip ==
    expPc.stage = "done" =>
        LET n == Len(expArgs.frames) IN
        /\ Len(FrameLines) = 2 * n + 1
        /\ FrameLines[2 * n + 1] = <<>>
        /\ \A i \in 1..n :
              /\ FrameLines[2 * i - 1] = <<"---FRAME---">>
              /\ FrameLines[2 * i] # <<"---FRAME---">>
              /\ ReadFrame(FrameLines[2 * i]) = expArgs.frames[i]

\* two different frames, one with line breaks and a three-byte character,
\* written after a template that itself shows the marker
C4_Witness ==
    /\ expPc.stage = "done"
    /\ expArgs.frames = << <<32, 10495, 10, 10>>, <<233, 10>> >>
    /\ \E k \in 1..Len(template) : template[k] = "---FRAME---"
    /\ gzipBuild.os = 3

(***************************************************************************)
(* The export API on its own.                                              *)
(***************************************************************************)
InitApi == ApiInit /\ WebInit /\ ConvIdle /\ ExpIdle /\ RestIdle /\ AsideIdle

SpecApi == InitApi /\ [][ApiNext]_vars

\* the last request reached _check_token
ReachedCheckToken == apiResp.ep # "" /\ apiResp.code \notin {413, 429}

\* the token of a header that starts with "Bearer "
TokenOf(auth) == Strip(RemoveFirst(Get(auth), "Bearer "))

HasBearer(auth) == ~IsNone(auth) /\ Get(auth) # <<>> /\ Get(auth)[1] = "Bearer "

\* the token is payload.signature, signed with the configured secret, and the
\* payload's exp is a number later than the clock (in milliseconds)
SignedAndFresh(token) ==
    /\ apiEnv.secret # ""
    /\ \E piece \in PayloadPieces :
          /\ token = <<piece, ".", HmacTable[apiEnv.secret][piece]>>
          /\ PayloadJson[piece].kind = "object"
          /\ PayloadJson[piece].exp.type = "int"
          /\ PayloadJson[piece].exp.val > apiNow * 1000

Admitted(auth) ==
    /\ HasBearer(auth)
    /\ \/ apiEnv.expected # <<>> /\ TokenOf(auth) = apiEnv.expected
       \/ apiEnv.free_mode /\ SignedAndFresh(TokenOf(auth))

\* C5: a request that reaches _check_token gets 401 when the Authorization
\* header is missing or does not start with 'Bearer '; else it is admitted when
\* the token equals the non-empty export token, or free mode is on and the token
\* is correctly signed with exp in the future; else it gets 500 when no export
\* token is configured and free mode is off, and 403 in every remaining case;
\* the export is run only for admitted requests.
C5_TokenDecision ==
    ReachedCheckToken =>
        LET auth == apiResp.authorization IN
        /\ ~HasBearer(auth) => apiResp.code = 401 /\ apiResp.ran = <<>>
        /\ Admitted(auth) => apiResp.ran # <<>>
        /\ (HasBearer(auth) /\ ~Admitted(auth)) =>
              /\ apiResp.ran = <<>>
              /\ apiResp.code = IF apiEnv.expected = <<>> /\ ~apiEnv.free_mode
                                THEN 500 ELSE 403

(***************************************************************************)
(* generate_srt on its own.                                                *)
(***************************************************************************)
ServerIdle == WebInit /\ ConvIdle /\ ExpIdle /\ ApiIdle

InitSrt == SrtInit /\ ServerIdle /\ SetIdle /\ CliIdle /\ RenderIdle /\ AsideIdle

SpecSrt == InitSrt /\ [][SrtNext]_vars

Called(strategy) == \E i \in 1..Len(srtCalls) : srtCalls[i] = strategy

\* the probe found a stream and the extraction returned a path
ExtractedAPath ==
    /\ srtLocals.has_subs = Some(TRUE)
    /\ ~IsNone(srtLocals.srt_path) /\ ~IsNone(Get(srtLocals.srt_path))

\* the probe found no stream, or extraction was tried and returned None
EmbeddedFailed ==
    \/ srtLocals.has_subs = Some(FALSE)
    \/ srtLocals.srt_path = Some(None)

\* C6: generate_srt probes first, extracts only after the probe, and calls
\* whisper last if at all; when the probe finds a stream and extraction returns
\* a path, that path is returned and whisper is never called; whisper is called
\* exactly when the probe finds no stream or the extraction fails; None is
\* returned only when every strategy that was tried failed.
C6_EmbeddedFirstThenWhisper ==
    /\ srtCalls \in {<<>>, <<"probe">>, <<"probe", "extract">>, <<"probe", "whisper">>,
                     <<"probe", "extract", "whisper">>}
    /\ ExtractedAPath =>
          /\ ~Called("whisper")
          /\ srtPc = "done" /\ srtOut = Some(Get(srtLocals.srt_path))
    /\ Called("whisper") => EmbeddedFailed
    /\ srtPc = "done" => (Called("whisper") <=> EmbeddedFailed)
    /\ (srtPc = "done" /\ srtOut = Some(None)) =>
          /\ Called("extract") => srtLocals.srt_path = Some(None)
          /\ Called("whisper") /\ srtLocals.whisper_path = Some(None)

\* the embedded stream was extracted and returned without whisper
C6_Witness ==
    /\ srtPc = "done"
    /\ srtCalls = <<"probe", "extract">>
    /\ srtOut = Some(Some(<<"w2", "embedded_subtitle.srt">>))

(***************************************************************************)
(* Settings resolution: one form posted to /api/convert, or one command    *)
(* line parsed.                                                            *)
(***************************************************************************)
SettingsForms ==
    [width : NoneOr({100}), fps : NoneOr({24}), color : NoneOr({FALSE}),
     invert : NoneOr({FALSE}), edge : NoneOr({TRUE}), charset : NoneOr({"blocks"}),
     crt : {None}, subtitle : {FALSE},
     preset : {"", "crt", "c64", "sketch", "minimal", "retro"}]

SettingsArgvs == CliArgvs({"crt", "c64", "sketch", "minimal"}, {100, 19}, {"blocks"})

InitSettings ==
    /\ \/ SetInit(SettingsForms) /\ CliIdle
       \/ SetIdle /\ CliInit(SettingsArgvs)
    /\ ServerIdle /\ SrtIdle /\ RenderIdle /\ AsideIdle

SettingsNext ==
    \/ \E ffmpeg \in BOOLEAN : PostForm(ffmpeg)
    \/ CliNext

SpecSettings == InitSettings /\ [][SettingsNext]_vars

\* the precedence of the claim: explicit value, else the preset's, else the default
Precedence(explicit, preset_name, key, default) ==
    IF ~IsNone(explicit) THEN Get(explicit)
    ELSE IF preset_name \in PresetNames /\ key \in DOMAIN PRESETS[preset_name]
    THEN PRESETS[preset_name][key]
    ELSE default

SchemeOf(preset_name) ==
    IF preset_name \in PresetNames /\ "color_scheme" \in DOMAIN PRESETS[preset_name]
    THEN Some(PRESETS[preset_name].color_scheme)
    ELSE None

\* the preset a command line selects: --preset if given, else crt for --crt
Selected(argv) ==
    IF ~IsNone(argv.preset) THEN Get(argv.preset)
    ELSE IF argv.crt THEN "crt" ELSE ""

SettingsFollow(r, given, preset_name) ==
    /\ r.width = Precedence(given.width, preset_name, "width", 160)
    /\ r.fps = Precedence(given.fps, preset_name, "fps", 12)
    /\ r.color = Precedence(given.color, preset_name, "color", FALSE)
    /\ r.invert = Precedence(given.invert, preset_name, "invert", FALSE)
    /\ r.edge = Precedence(given.edge, preset_name, "edge", FALSE)
    /\ r.charset = Precedence(given.charset, preset_name, "charset", "classic")

\* C7: for width, fps, color, invert, edge and charset an explicitly supplied
\* value wins, else the selected preset's value, else the default (160, 12,
\* false, false, false, 'classic'), in the namespace parse_args returns and in
\* the parameters of the job POST /api/convert creates; the colour scheme is the
\* preset's alone; --crt selects preset 'crt' only when no --preset was given.
C7_SettingsPrecedence ==
    /\ cliPc \in {"parsed", "done"} =>
          LET argv == Get(cliArgv)
              args == Get(cliArgs)
          IN /\ SettingsFollow(args, argv, Selected(argv))
             /\ args.color_scheme = SchemeOf(Selected(argv))
             /\ args.preset = IF Selected(argv) = "" THEN None ELSE Some(Selected(argv))
             /\ ~IsNone(argv.preset) => args.preset = argv.preset
    /\ (resp.ep = "convert" /\ resp.code = 200) =>
          LET form == RespForm
              job == jobs[resp.id]
          IN /\ SettingsFollow(job.params, form, form.preset)
             /\ job.color_scheme = SchemeOf(form.preset)

\* --preset c64 --crt --width 100: the preset stays c64, the width is 100, the
\* rest is c64's
C7_Witness ==
    /\ cliPc = "parsed"
    /\ Get(cliArgv).preset = Some("c64") /\ Get(cliArgv).crt
    /\ Get(cliArgv).width = Some(100) /\ IsNone(Get(cliArgv).charset)
    /\ Get(cliArgs).preset = Some("c64") /\ Get(cliArgs).width = 100
    /\ Get(cliArgs).charset = "petscii" /\ Get(cliArgs).color_scheme = Some("C64_BLUE")

(***************************************************************************)
(* The CRT default of an exported script: a job run to completion and      *)
(* exported, or a command line with --export.                              *)
(***************************************************************************)
CrtForms ==
    [width : {None}, fps : {None}, color : {None}, invert : {None}, edge : {None},
     charset : {None}, crt : NoneOr(BOOLEAN), subtitle : BOOLEAN,
     preset : {"", "crt", "c64"}]

CrtArgvs == CliArgvs({"crt", "c64"}, {100}, {})

InitCrt ==
    /\ \/ SetInit(CrtForms) /\ CliIdle
       \/ SetIdle /\ CliInit(CrtArgvs)
    /\ ServerIdle /\ SrtIdle /\ RenderIdle /\ AsideIdle

CrtNext ==
    \/ \E ffmpeg \in BOOLEAN : PostForm(ffmpeg)
    \/ WebTask
    \/ \E id \in RequestIds : ExportSh(id)
    \/ CliNext

SpecCrt == InitCrt /\ [][CrtNext]_vars

\* C8: the crt argument of export is true exactly when CRT playback was
\* requested: in the web app when the crt form field is true, or it is absent and
\* the preset is 'crt'; in the CLI when --crt was given or the preset is 'crt'.
\* Preset c64, which only sets crt_filter, does not turn it on.
C8_CrtDefaultOfExport ==
    /\ (resp.ep = "export_sh" /\ resp.code = 200) =>
          LET form == Get(setForm) IN
          resp.body[1].crt <=>
              (form.crt = Some(TRUE) \/ (IsNone(form.crt) /\ form.preset = "crt"))
    /\ cliPc \in {"parsed", "done"} =>
          LET argv == Get(cliArgv) IN
          /\ CliDefaultCrtPlayback(Get(cliArgs)) <=> (argv.crt \/ argv.preset = Some("crt"))
          /\ ~IsNone(cliOut.export_call) =>
                (Get(cliOut.export_call).crt <=> (argv.crt \/ argv.preset = Some("crt")))

\* a job made with preset c64 and no crt field, whose crt_filter is on, was
\* exported with the CRT default off
C8_Witness ==
    /\ resp.ep = "export_sh" /\ resp.code = 200
    /\ Get(setForm).preset = "c64" /\ IsNone(Get(setForm).crt)
    /\ jobs[resp.id].params.crt_filter
    /\ ~resp.body[1].crt

(***************************************************************************)
(* render_ascii_frame on its own.                                          *)
(***************************************************************************)
InitRender == RndInit /\ ServerIdle /\ SrtCliIdle /\ Mp4Idle /\ AsideIdle

SpecRender == InitRender /\ [][RndNext]_vars

\* C9: the image render_ascii_frame writes has an even width and an even
\* height, on the scale-up path, on the base path, and after the scale-down
\* applied when a dimension exceeds 3840.
C9_EvenDimensions ==
    ~IsNone(rndImage) =>
        /\ Get(rndImage)[1] % 2 = 0
        /\ Get(rndImage)[2] % 2 = 0

\* an image written after scale-up for an odd target width and then scale-down
\* by the height, the width not a multiple of the height
C9_Witness ==
    /\ ~IsNone(rndImage)
    /\ rndDim.path = <<"up", "down">>
    /\ rndIn.target_width = 5001
    /\ rndDim.width # 3840
    /\ rndDim.height = 3840

(***************************************************************************)
(* export_mp4 on its own.                                                  *)
(***************************************************************************)
InitMp4 == Mp4Init /\ ServerIdle /\ SrtCliIdle /\ RndIdle /\ AsideIdle

SpecMp4 == InitMp4 /\ [][Mp4Next]_vars

\* the encoder named after -c:v in the command
EncoderOf(cmd) == cmd.video[2]

\* ffmpeg's VP9 encoders
Vp9Encoders == {"libvpx-vp9", "vp9_vaapi", "vp9_qsv"}

\* C10: the ffmpeg command export_mp4 runs names the encoder of the requested
\* codec: prores_ks for 'prores422', libx265 for 'h265', libx264 for 'h264', and
\* a VP9 encoder for 'vp9'.
C10_EncoderMatchesCodec ==
    ~IsNone(mp4Cmd) =>
        LET encoder == EncoderOf(Get(mp4Cmd)) IN
        /\ mp4Args.codec = "prores422" => encoder = "prores_ks"
        /\ mp4Args.codec = "h265" => encoder = "libx265"
        /\ mp4Args.codec = "h264" => encoder = "libx264"
        /\ mp4Args.codec = "vp9" => encoder \in Vp9Encoders

(***************************************************************************)
(* get_subtitle_for_frame on its own.                                      *)
(***************************************************************************)
\* everything but the function called at rest
OthersIdle == ServerIdle /\ SrtCliIdle /\ RenderIdle /\ CapInit /\ PlIdle /\ RlIdle /\ StrIdle

InitSubtitle == SubtitleInit /\ OthersIdle

SpecSubtitle == InitSubtitle /\ [][CallGetSubtitleForFrame]_vars

\* the indices of the segments whose half-open interval holds the frame's time
Holding(segments, frame_index, fps) ==
    {i \in 1..Len(segments) :
        /\ segments[i].start * fps <= frame_index * 1000
        /\ frame_index * 1000 < segments[i].end * fps}

Least(S) == CHOOSE i \in S : \A j \in S : i <= j

\* C11: get_subtitle_for_frame returns None when the segment list is None or
\* empty or fps <= 0; otherwise the text of the first segment in list order with
\* start <= frame_index / fps < end, and None when there is no such segment.
C11_FirstHalfOpenSegment ==
    (fnPc = "done" /\ fnIn.fn = "get_subtitle_for_frame") =>
        LET out == Get(fnOut) IN
        IF IsNone(fnIn.segments) \/ Get(fnIn.segments) = <<>> \/ fnIn.fps <= 0
        THEN out = None
        ELSE LET holding == Holding(Get(fnIn.segments), fnIn.frame_index, fnIn.fps) IN
             IF holding = {} THEN out = None
             ELSE out = Some(Get(fnIn.segments)[Least(holding)].text)

\* frame 12 at 12 fps is at 1.000 s, the end of the first segment and the
\* start of the second: it gets the second segment's text
C11_Witness ==
    /\ fnPc = "done" /\ fnIn.fn = "get_subtitle_for_frame"
    /\ fnIn.segments = Some(<<[start |-> 0, end |-> 1000, text |-> "a"],
                              [start |-> 1000, end |-> 2000, text |-> "b"]>>)
    /\ fnIn.frame_index = 12 /\ fnIn.fps = 12
    /\ fnOut = Some(Some("b"))

InitAscii == AsciiInit /\ OthersIdle

SpecAscii == InitAscii /\ [][CallImageToAscii]_vars

AsciiDone == fnPc = "done" /\ fnIn.fn = "image_to_ascii"

\* r + g + b of the pixel, three times the grey level
PixelSum(color, pixel) ==
    IF color THEN pixel[1] + pixel[2] + pixel[3] ELSE 3 * pixel[1]

\* the characters before inversion
PlainChars(charset) ==
    IF charset \in CHARSETS THEN CharsetStrings[charset]
    ELSE CustomCharsets[charset]

\* C12: the character of a pixel of brightness b under a charset of n
\* characters is chars[floor(b * (n - 1) / 255)], the index taken in the
\* reversed charset when invert is set
C12_CharOfBrightness ==
    AsciiDone =>
        LET n == Len(PlainChars(fnIn.charset))
            idx == (PixelSum(fnIn.color, fnIn.pixel) * (n - 1)) \div 765
        IN  /\ Get(fnOut).char_idx = idx
            /\ Get(fnOut).char =
                   IF fnIn.invert THEN PlainChars(fnIn.charset)[n - idx]
                   ELSE PlainChars(fnIn.charset)[idx + 1]

\* C12, the part about the range and the ends: the index is within
\* 0..n-1, 0 for brightness 0 and n-1 for brightness 255
C12_IndexInRange ==
    AsciiDone =>
        LET n == Len(PlainChars(fnIn.charset))
            sum == PixelSum(fnIn.color, fnIn.pixel)
        IN  /\ Get(fnOut).char_idx \in 0..(n - 1)
            /\ sum = 0 => Get(fnOut).char_idx = 0
            /\ sum = 765 => Get(fnOut).char_idx = n - 1
            /\ Get(fnOut).char = Chars(fnIn.charset, fnIn.invert)[Get(fnOut).char_idx + 1]

\* C12, the part about the order: one grey level more never gives a
\* smaller index
C12_IndexMonotone ==
    (AsciiDone /\ ~fnIn.color /\ fnIn.pixel[1] < 255) =>
        Get(fnOut).char_idx <=
            CharIdx(FloatOfInt(fnIn.pixel[1] + 1), Len(PlainChars(fnIn.charset)))

InitFont == FontInit /\ OthersIdle

SpecFont == InitFont /\ [][CallResolveFont]_vars

FontDone == fnPc = "done" /\ fnIn.fn = "resolve_font"

\* the override is given and not the empty string
OverrideGiven == ~IsNone(fnIn.font_override) /\ Get(fnIn.font_override).file # <<>>

\* the override is an absolute path that exists
OverrideIsFile ==
    /\ OverrideGiven
    /\ Get(fnIn.font_override).dir # ""
    /\ Get(fnIn.font_override) \in fnIn.files

\* the installed files in a search directory named by the override with
\* one of the extensions
OverrideInDirs ==
    {p \in fnIn.files :
        /\ OverrideGiven
        /\ \E i \in 1..Len(FONT_SEARCH_DIRS) : p.dir = FONT_SEARCH_DIRS[i]
        /\ \E ext \in {".ttf", ".ttc", ".otf"} :
               p.file = Append(Get(fnIn.font_override).file, ext)}

\* the installed files of a PetMe variant in a search directory
PetmeInDirs(variant) ==
    {p \in fnIn.files :
        /\ \E i \in 1..Len(FONT_SEARCH_DIRS) : p.dir = FONT_SEARCH_DIRS[i]
        /\ p.file = <<variant, ".ttf">>}

\* what the charset decides
AutoSelected(out) ==
    LET lower == IF fnIn.charset = "PETSCII" THEN "petscii" ELSE fnIn.charset
        petme == {i \in 1..Len(PETME_VARIANTS) : PetmeInDirs(PETME_VARIANTS[i]) # {}}
        bold == Range(bold_braille_font_paths) \cap fnIn.files
        regular == Range(braille_font_paths) \cap fnIn.files
        mono == Range(font_paths) \cap fnIn.files
    IN  IF lower = "petscii" /\ petme # {}
        THEN /\ ~IsNone(out.path)
             /\ Get(out.path) \in PetmeInDirs(PETME_VARIANTS[Least(petme)])
             /\ ~out.is_bold
        ELSE IF lower = "braille" /\ bold # {}
        THEN ~IsNone(out.path) /\ Get(out.path) \in bold /\ out.is_bold
        ELSE IF lower = "braille" /\ regular # {}
        THEN ~IsNone(out.path) /\ Get(out.path) \in regular /\ ~out.is_bold
        ELSE /\ IF mono = {} THEN IsNone(out.path)
                ELSE ~IsNone(out.path) /\ Get(out.path) \in mono
             /\ ~out.is_bold

\* C13: an override that is an existing absolute path is used as is; else
\* an override found as a bare name in the search directories; else the
\* charset decides (petscii: first installed PetMe variant; braille: bold,
\* else regular braille font; else the monospace font or no path); is_bold
\* only for the auto-selected bold braille font
C13_FontPrecedence ==
    FontDone =>
        LET out == Get(fnOut)
        IN  IF OverrideIsFile
            THEN out = [path |-> fnIn.font_override, is_bold |-> FALSE]
            ELSE IF OverrideInDirs # {}
            THEN /\ ~IsNone(out.path)
                 /\ Get(out.path) \in OverrideInDirs
                 /\ ~out.is_bold
            ELSE AutoSelected(out)

\* C13 for the overrides that are not an absolute path
C13_RelativeOverridePrecedence ==
    (FontDone /\ ~(OverrideGiven /\ Get(fnIn.font_override).dir # ""))
        => C13_FontPrecedence

\* C13, the part about is_bold: true only for the bold braille font chosen
\* by the charset
C13_BoldOnlyAutoBraille ==
    (FontDone /\ Get(fnOut).is_bold) =>
        /\ fnIn.charset = "braille"
        /\ ~IsNone(Get(fnOut).path)
        /\ Get(Get(fnOut).path) \in Range(bold_braille_font_paths)
        /\ ~OverrideIsFile
        /\ OverrideInDirs = {}

InitBlend == BlendInit /\ OthersIdle

SpecBlend == InitBlend /\ [][CallBlendColor]_vars

BlendDone == fnPc = "done" /\ fnIn.fn = "blend_color"

\* C14: each channel of blend_color is min(255, floor(c * (1 - blend) +
\* tint_c * blend)); blend 1.0 gives the tint, blend 0.0 the input colour,
\* and every channel is within 0..255
C14_BlendFormula ==
    BlendDone =>
        \A i \in 1..3 :
            /\ Get(fnOut)[i] =
                   Min(255, (fnIn.color[i] * (10 - fnIn.scheme.blend)
                             + fnIn.scheme.tint[i] * fnIn.scheme.blend) \div 10)
            /\ Get(fnOut)[i] \in 0..255
            /\ fnIn.scheme.blend = 10 => Get(fnOut)[i] = fnIn.scheme.tint[i]
            /\ fnIn.scheme.blend = 0 => Get(fnOut)[i] = fnIn.color[i]

\* C14, the part about the ends and the range
C14_EndsAndRange ==
    BlendDone =>
        \A i \in 1..3 :
            /\ Get(fnOut)[i] \in 0..255
            /\ fnIn.scheme.blend = 10 => Get(fnOut)[i] = fnIn.scheme.tint[i]
            /\ fnIn.scheme.blend = 0 => Get(fnOut)[i] = fnIn.color[i]

InitHtml == HtmlInit /\ OthersIdle

SpecHtml == InitHtml /\ [][CallAnsiToHtml]_vars

HtmlDone == fnPc = "done" /\ fnIn.fn = "ansi_to_html"

\* the places where a run of text starts: a character that is the first
\* piece or follows a code
RunStarts(text) ==
    {i \in 1..Len(text) : ~IsCode(text[i]) /\ (i = 1 \/ IsCode(text[i - 1]))}

\* the start of the k-th run
RunStart(text, k) ==
    CHOOSE i \in RunStarts(text) :
        Cardinality({s \in RunStarts(text) : s < i}) = k - 1

\* the run of text that starts at i
RunAt(text, i) ==
    SubSeq(text, i,
           CHOOSE j \in i..Len(text) :
               /\ \A n \in i..j : ~IsCode(text[n])
               /\ (j = Len(text) \/ IsCode(text[j + 1])))

Entities ==
    { [c |-> "&", e |-> <<"&", "a", "m", "p", ";">>],
      [c |-> "<", e |-> <<"&", "l", "t", ";">>],
      [c |-> ">", e |-> <<"&", "g", "t", ";">>],
      [c |-> "\"", e |-> <<"&", "q", "u", "o", "t", ";">>],
      [c |-> "'", e |-> <<"&", "#", "x", "2", "7", ";">>] }

StartsWith(text, e) ==
    Len(text) >= Len(e) /\ \A j \in 1..Len(e) : text[j] = Ch(e[j])

\* stands for markup: a special character that is not part of an entity
Markup == [k |-> "markup", c |-> "", rgb |-> <<>>]

\* what a browser shows for the text: entities decoded, codes as they are
RECURSIVE Shown(_)
Shown(text) ==
    IF text = <<>> THEN <<>>
    ELSE IF text[1] = Ch("&")
    THEN IF \E ent \in Entities : StartsWith(text, ent.e)
         THEN LET ent == CHOOSE x \in Entities : StartsWith(text, x.e)
              IN  <<Ch(ent.c)>> \o Shown(SubSeq(text, Len(ent.e) + 1, Len(text)))
         ELSE <<Markup>>
    ELSE IF text[1] \in {Ch("<"), Ch(">"), Ch("\""), Ch("'")} THEN <<Markup>>
    ELSE <<text[1]>> \o Shown(Tail(text))

\* C15: all text ansi_to_html emits is escaped, on every path: each span
\* or bare text of the output shows exactly the run of input text it was
\* made from, and no special character of the input is left as markup
C15_AllTextEscaped ==
    HtmlDone =>
        LET text == fnIn.ascii_text
            out == Get(fnOut)
        IN  IF text = <<>> THEN out = <<>>
            ELSE IF RunStarts(text) = {}
            THEN Len(out) = 1 /\ Shown(out[1].text) = text
            ELSE /\ Len(out) = Cardinality(RunStarts(text))
                 /\ \A k \in 1..Len(out) :
                        Shown(out[k].text) = RunAt(text, RunStart(text, k))

\* text with special characters before and after a colour code, tinted
C15_Witness ==
    /\ HtmlDone
    /\ fnIn.crt
    /\ fnIn.ascii_text = <<Ch("<"), FgCode(<<255, 0, 0>>), Ch("&")>>
    /\ Len(Get(fnOut)) = 2
    /\ Get(fnOut)[1].text = <<Ch("&"), Ch("l"), Ch("t"), Ch(";")>>
    /\ Get(fnOut)[2].text = <<Ch("&"), Ch("a"), Ch("m"), Ch("p"), Ch(";")>>

Greatest(S) == CHOOSE i \in S : \A j \in S : i >= j

\* the colour set by the last code of the kind before place i and after
\* the last reset before i
ColourAt(text, kind, i) ==
    LET set == {j \in 1..(i - 1) :
                    /\ text[j].k = kind
                    /\ \A n \in (j + 1)..(i - 1) : text[n].k # "reset"}
    IN  IF set = {} THEN None ELSE Some(text[Greatest(set)].rgb)

\* the tint mixed in: floor(c * 0.2 + tint_c * 0.8) per channel
Tinted(rgb) ==
    << (rgb[1] * 2 + CrtGreen[1] * 8) \div 10,
       (rgb[2] * 2 + CrtGreen[2] * 8) \div 10,
       (rgb[3] * 2 + CrtGreen[3] * 8) \div 10 >>

FrameOfCompleted ==
    /\ resp.ep = "frame"
    /\ resp.id \in DOMAIN jobs
    /\ jobs[resp.id].status = COMPLETED
    /\ ~IsNone(jobs[resp.id].frames)

\* C18: GET frame/{n} on a completed job returns the HTML of exactly the
\* n-th frame when 0 <= n < number of frames, and 404 for every other n
C18_FrameByNumber ==
    FrameOfCompleted =>
        LET n == resp.arg[1]
            frames == Get(jobs[resp.id].frames)
        IN  IF 0 <= n /\ n < Len(frames)
            THEN /\ resp.code = 200
                 /\ resp.body = <<[html_of |-> frames[n + 1],
                                   scheme |-> jobs[resp.id].color_scheme]>>
            ELSE resp.code = 404

\* C18, the part about the numbers out of range: 404, and no frame returned
C18_OutOfRange ==
    FrameOfCompleted =>
        ((resp.arg[1] < 0 \/ resp.arg[1] >= Len(Get(jobs[resp.id].frames)))
            => resp.code = 404 /\ resp.body = <<>>)

(***************************************************************************)
(* The job table with one job more than MaxJobs, so that a job is deleted  *)
(* while another exists; every upload is the default form.                 *)
(***************************************************************************)
DefaultForm ==
    [width |-> None, fps |-> None, color |-> None, invert |-> None,
     edge |-> None, charset |-> None, crt |-> None, subtitle |-> FALSE,
     preset |-> ""]

InitDelete ==
    /\ WebInit
    /\ ConvIdle /\ ExpIdle /\ ApiIdle
    /\ RestIdle
    /\ FnIdle
    /\ jobCap = MaxJobs + 1
    /\ PlIdle
    /\ RlIdle
    /\ StrIdle

DeleteNext ==
    \/ ConvertVideo(DefaultForm, TRUE)
    \/ \E id \in JobIds :
           \/ TaskBegin(id)
           \/ \E ok \in BOOLEAN : TaskExtracted(id, ok, 1)
           \/ TaskConverted(id, TRUE)
    \/ \E id \in RequestIds :
           \/ GetJobStatus(id)
           \/ GetFrames(id)
           \/ GetFrame(id, 0)
           \/ ExportSh(id)
           \/ ExportMp4Endpoint(id)
           \/ DeleteJob(id)

SpecDelete == InitDelete /\ [][DeleteNext]_vars

\* a request about job id is answered in this step
RequestFor(id) ==
    \/ GetJobStatus(id)
    \/ GetFrames(id)
    \/ GetFrame(id, 0)
    \/ ExportSh(id)
    \/ ExportMp4Endpoint(id)
    \/ DeleteJob(id)

\* C17: DELETE of an existing job removes exactly its entry, whatever its
\* status, and leaves the other jobs as they were; DELETE of an unknown id
\* answers 404 and changes nothing; every request for an id that is not in
\* the table answers 404, and an id once deleted never comes back
C17_DeleteExactlyThatJob ==
    [][\A id \in RequestIds :
          /\ (DeleteJob(id) /\ id \in DOMAIN jobs) =>
                 /\ DOMAIN jobs' = DOMAIN jobs \ {id}
                 /\ \A j \in DOMAIN jobs' : jobs'[j] = jobs[j]
                 /\ resp'.code = 200
          /\ (DeleteJob(id) /\ id \notin DOMAIN jobs) =>
                 /\ resp'.code = 404
                 /\ UNCHANGED <<jobs, tasks, workDirs>>
          /\ (RequestFor(id) /\ id \notin DOMAIN jobs) => resp'.code = 404
          /\ (id \in DOMAIN tasks /\ id \notin DOMAIN jobs) => id \notin DOMAIN jobs'
      ]_vars

\* job 1 was deleted while job 2 exists, and a status request for job 1
\* was answered 404
C17_Witness ==
    /\ 1 \in DOMAIN tasks /\ 1 \notin DOMAIN jobs
    /\ 2 \in DOMAIN jobs
    /\ resp.ep = "status" /\ resp.id = 1 /\ resp.code = 404

\* C19: once main has created its work directory, the directory is gone at
\* the end of the run exactly when --no-cache was on the command line, by a
\* return or by an exception alike; a run that ends before the directory is
\* created leaves none
C19_WorkDirRemovedIffNoCache ==
    cliPc = "done" =>
        IF cliOut.created
        THEN cliOut.work_dir <=> ~Get(cliArgv).no_cache
        ELSE ~cliOut.work_dir

\* a run with --no-cache that created the directory, left main by an
\* exception and removed the directory
C19_Witness ==
    /\ cliPc = "done"
    /\ Get(cliArgv).no_cache
    /\ cliOut.created /\ cliOut.exception = "TypeError"
    /\ ~cliOut.work_dir

\* a run without --no-cache that created the directory and kept it
C19_KeptWitness ==
    /\ cliPc = "done"
    /\ ~Get(cliArgv).no_cache
    /\ cliOut.created /\ cliOut.work_dir

InitParseSrt == ParseSrtInit /\ OthersIdle

SpecParseSrt == InitParseSrt /\ [][CallParseSrt]_vars

ParseSrtDone == fnPc = "done" /\ fnIn.fn = "parse_srt"

\* the first lines of the blocks of a file: a line that is not white space
\* and follows none
BlockStarts(lines) ==
    {i \in 1..Len(lines) :
        lines[i].kind # "blank" /\ (i = 1 \/ lines[i - 1].kind = "blank")}

\* the last line of the block that starts at line i
BlockEnd(lines, i) ==
    Greatest({j \in i..Len(lines) : \A k \in i..j : lines[k].kind # "blank"})

\* the blocks the claim keeps: three lines or more with a timestamp line second
KeptStarts(lines) ==
    {i \in BlockStarts(lines) :
        BlockEnd(lines, i) - i + 1 >= 3 /\ lines[i + 1].kind = "ts"}

\* the text of lines i..j joined by single spaces
RECURSIVE SpacedText(_, _, _)
SpacedText(lines, i, j) ==
    IF i = j THEN lines[i].stripped
    ELSE SpacedText(lines, i, j - 1) \o <<" ">> \o lines[j].stripped

\* the segments a file should give: the kept blocks in file order
RECURSIVE ExpectedSegments(_, _)
ExpectedSegments(lines, starts) ==
    IF starts = {} THEN <<>>
    ELSE LET i == Least(starts) IN
         <<<<lines[i + 1].start, lines[i + 1].end,
             SpacedText(lines, i + 2, BlockEnd(lines, i))>>>>
         \o ExpectedSegments(lines, starts \ {i})

\* C20: parse_srt returns, for a file it can read, the segments of the blocks
\* that have three lines or more and a well-formed timestamp line, in file
\* order, as (start, end, text) with the text lines joined by single spaces,
\* and skips every other block; for a file that is missing or cannot be
\* decoded it returns the empty list
C20_ParseSrtSegments ==
    ParseSrtDone =>
        Get(fnOut) = IF fnIn.read = "ok"
                     THEN ExpectedSegments(fnIn.lines, KeptStarts(fnIn.lines))
                     ELSE <<>>

\* a file of a block with a malformed timestamp line, a line of white space
\* and a well-formed block: the one segment is the second block's
C20_Witness ==
    /\ ParseSrtDone
    /\ fnIn.read = "ok"
    /\ Len(fnIn.lines) = 7
    /\ fnIn.lines[2].kind = "bad" /\ fnIn.lines[3].kind = "text"
    /\ fnIn.lines[4].chars = <<" ">>
    /\ fnIn.lines[6].kind = "ts"
    /\ Get(fnOut) = <<<<3723004, 3724005, <<"a">>>>>>

InitFill == FillInit /\ OthersIdle

SpecFill == InitFill /\ [][CallFillColor]_vars

FillDone == fnPc = "done" /\ fnIn.fn = "fill_color"

\* C21: in colour rendering the brightness boost never darkens: black is
\* drawn black, and every channel of another colour comes out at least as
\* large as it went in and at most 255
C21_BoostNeverDarkens ==
    FillDone =>
        IF fnIn.current_color = <<0, 0, 0>> THEN Get(fnOut) = <<0, 0, 0>>
        ELSE \A i \in 1..3 :
                 /\ Get(fnOut)[i] >= fnIn.current_color[i]
                 /\ Get(fnOut)[i] <= 255

\* a dark colour drawn 4.5 times as bright, 29 * 4.5 = 130.5 cut to 130
C21_Witness ==
    /\ FillDone
    /\ ~fnIn.braille
    /\ fnIn.current_color = <<1, 5, 29>>
    /\ Get(fnOut) = <<4, 22, 130>>

\* C22: the background task never ends with an uncaught exception, also
\* when its job is deleted while it runs
C22_TaskNeverCrashes ==
    \A id \in DOMAIN tasks : tasks[id].pc # "crashed"

\* C22, the part that holds: a task whose job is still in the table ends
\* with the job completed or with the failure recorded as status 'error'
\* and a message, and a task ends with an exception only after its job
\* was deleted
C22_FailureRecordedWhileJobExists ==
    \A id \in DOMAIN tasks :
        /\ (tasks[id].pc = "done" /\ id \in DOMAIN jobs) =>
               /\ jobs[id].status \in {COMPLETED, ERROR}
               /\ jobs[id].status = ERROR => ~IsNone(jobs[id].error)
        /\ tasks[id].pc = "crashed" => id \notin DOMAIN jobs

\* the stages in order
StageRank(status) ==
    CASE status = PENDING -> 1
      [] status = EXTRACTING -> 2
      [] status = CONVERTING -> 3
      [] status = COMPLETED -> 4
      [] status = ERROR -> 5

\* one step of a status: none, the next stage, or a failure of a stage that
\* has not ended
StatusStep(old, new) ==
    \/ new = old
    \/ StageRank(old) < 4 /\ StageRank(new) = StageRank(old) + 1
    \/ StageRank(old) < 4 /\ new = ERROR

\* C23: the status of a job only moves forward along pending, extracting,
\* converting, completed, or from a stage before completed to error; a
\* completed or failed job keeps its status while it exists; the error
\* field is set exactly when the status is 'error'
C23_StatusMovesForward ==
    [][/\ \A id \in DOMAIN jobs \cap DOMAIN jobs' :
             StatusStep(jobs[id].status, jobs'[id].status)
       /\ \A id \in DOMAIN jobs' \ DOMAIN jobs : jobs'[id].status = PENDING
       /\ \A id \in DOMAIN jobs' :
             IsNone(jobs'[id].error) <=> jobs'[id].status # ERROR
      ]_vars

\* a job that failed at conversion, after the stages before it
C23_Witness ==
    \E id \in DOMAIN jobs :
        /\ jobs[id].status = ERROR
        /\ jobs[id].error = Some("convert_all failed")
        /\ jobs[id].progress.stage = "converting"

\* C24: in every state a request handler can observe, a completed job has
\* its frames and progress.current = progress.total = the number of frames,
\* and a job that is not completed has no frames; so no frames or export
\* request is answered 500 'Frames not available'
C24_FramesIffCompleted ==
    /\ \A id \in DOMAIN jobs :
          IF jobs[id].status = COMPLETED
          THEN /\ ~IsNone(jobs[id].frames)
               /\ jobs[id].progress.current = Len(Get(jobs[id].frames))
               /\ jobs[id].progress.total = Len(Get(jobs[id].frames))
          ELSE IsNone(jobs[id].frames)
    /\ ~(resp.code = 500 /\ resp.detail = "Frames not available")

\* a completed job with two frames
C24_Witness ==
    \E id \in DOMAIN jobs :
        /\ jobs[id].status = COMPLETED
        /\ Len(Get(jobs[id].frames)) = 2
        /\ jobs[id].progress = [stage |-> "completed", current |-> 2, total |-> 2]

(***************************************************************************)
(* One job, its task, a delete, and one stream of its progress.            *)
(***************************************************************************)
StreamInit == StrIdle

InitStream ==
    /\ WebInit /\ ConvIdle /\ ExpIdle /\ ApiIdle
    /\ RestIdle
    /\ CapInit /\ FnIdle /\ RlIdle /\ PlIdle
    /\ StreamInit

StreamNext ==
    \/ ConvertVideo(DefaultForm, TRUE)
    \/ \E id \in JobIds :
           \/ TaskBegin(id)
           \/ \E ok \in BOOLEAN, n \in {0, 2} : TaskExtracted(id, ok, n)
           \/ \E ok \in BOOLEAN : TaskConverted(id, ok)
    \/ \E id \in RequestIds :
           \/ DeleteJob(id)
           \/ StreamOpen(id)
    \/ StreamPoll
    \/ StreamResume
    \/ StreamWake

\* the event loop runs a coroutine that is ready: the generator is resumed
\* after each yield and each sleep while the client reads the stream
SpecStream ==
    /\ InitStream
    /\ [][StreamNext]_vars
    /\ WF_vars(StreamPoll) /\ WF_vars(StreamResume) /\ WF_vars(StreamWake)

StreamIsOpen == strPc \in {"poll", "emitted", "sleep"}

\* the job of the stream is gone, or is there with a final status
JobOver ==
    \/ strJob \notin DOMAIN jobs
    \/ jobs[strJob].status \in {COMPLETED, ERROR}

\* the last event carries a final status
LastIsFinal ==
    /\ ~IsNone(strOut.last)
    /\ "status" \in DOMAIN Get(strOut.last)
    /\ Get(strOut.last).status \in {COMPLETED, ERROR}

\* how a stream may stand: it has sent at most one event with a final
\* status, that event is the last one, and after it the stream only closes;
\* a closed stream ended with that event or with 'Job not found'
StreamEndsWell ==
    /\ strOut.final <= 1
    /\ strOut.final = 1 => LastIsFinal /\ strPc \in {"emitted", "closed"}
    /\ strPc = "closed" =>
           \/ strOut.last = Some(NotFoundEvent) /\ strOut.final = 0
           \/ LastIsFinal /\ strOut.final = 1
    /\ (strPc = "closed" /\ strOut.last = Some(NotFoundEvent)) =>
           strJob \notin DOMAIN jobs
    /\ (strPc \in {"emitted", "closed"} /\ LastIsFinal /\ strJob \in DOMAIN jobs) =>
           Get(strOut.last) = StatusEvent(jobs[strJob])

\* C25: an open stream closes once its job has a final status or is gone;
\* it closes with exactly one event of a final status, sent when it finds
\* the job completed or failed in the table, or with 'Job not found' when it
\* finds the job gone, and sends nothing after either
C25_StreamEnds ==
    /\ []StreamEndsWell
    /\ (StreamIsOpen /\ JobOver) ~> (strPc = "closed")

\* C25 as stated: whenever the job reached a final status, the stream that
\* was open for it closes with an event of that status
C25_FinalStatusAlwaysReported ==
    (strPc = "closed" /\ tasks[strJob].pc = "done") =>
        LastIsFinal /\ strOut.final = 1

\* the stream closed with the one event of the failed job
C25_Witness ==
    /\ strPc = "closed"
    /\ strOut.final = 1
    /\ strJob \in DOMAIN jobs
    /\ Get(strOut.last).status = ERROR
    /\ Get(strOut.last).error = Some("convert_all failed")
    /\ strLocal.last_status = Some(ERROR)

InitRate ==
    /\ ServerIdle /\ RestIdle
    /\ CapInit /\ FnIdle /\ StrIdle /\ PlIdle
    /\ RateInit

SpecRate == InitRate /\ [][RateNext]_vars

\* how many requests passed in the 60 seconds that begin at time t
PassedInWindow(t) ==
    Cardinality({i \in 1..Len(rlPassed) :
                    t <= rlPassed[i] /\ rlPassed[i] < t + RATE_WINDOW_SECONDS})

\* C26: with a limit above 0, no more requests of a client than the limit
\* pass _check_rate_limit in any window of 60 seconds, also when worker
\* threads handle requests of the client at the same time
C26_AtMostLimitPerWindow ==
    rlLimit > 0 =>
        \A i \in 1..Len(rlPassed) : PassedInWindow(rlPassed[i]) <= rlLimit

\* C26, the parts that hold: the list stored for a client never has more
\* entries than the limit, a request is answered 429 only when the list it
\* read was full, and a limit of 0 turns the check off
C26_StoredListWithinLimit ==
    /\ \A c \in DOMAIN rateState : Len(rateState[c]) <= rlLimit
    /\ \A w \in Workers :
          rlThreads[w].out = 429 => Len(rlThreads[w].hits) >= rlLimit /\ rlLimit > 0
    /\ rlLimit <= 0 => rateState = <<>>

\* C27: no request leaves the directory that _run_export made for it
\* behind: once a request has been answered, whether the export succeeded
\* or export_mp4 raised, none of the directories exists
C27_NoDirectoryLeftBehind == apiDirs = 0

(***************************************************************************)
(* TerminalPlayer.play on its own: one call, Ctrl-C at any statement, the  *)
(* flag set from outside at any statement.  The main thread keeps running, *)
(* so the steps of play are fair; signals are not.                         *)
(***************************************************************************)
InitPlayer ==
    /\ ServerIdle /\ RestIdle
    /\ CapInit /\ FnIdle /\ StrIdle /\ RlIdle
    /\ PlayInit

SpecPlayer ==
    /\ InitPlayer
    /\ [][PlayNext]_vars
    /\ WF_vars(PlayStep)

PlayEnded == plPc.at = "ended"

\* the place of the last item of the set in the output, 0 when there is none
LastOf(items) == Greatest({0} \cup {k \in 1..Len(plOut) : plOut[k] \in items})

\* C28: however play is left (return after the last frame, return on the
\* flag, SystemExit from the signal handler, an exception of print(frame)),
\* the cursor-show code and after it the reset code have been written after
\* the last frame, and the last of the cursor-hide and cursor-show codes
\* written is cursor-show.
C28_TerminalRestored ==
    PlayEnded =>
        /\ plWay \in {"return", "SystemExit", "UnicodeEncodeError"}
        /\ LastOf({CURSOR_SHOW}) > LastOf(PlayFrames)
        /\ LastOf({RESET}) > LastOf({CURSOR_SHOW})
        /\ LastOf({CURSOR_SHOW}) > LastOf({CURSOR_HIDE})
        /\ Len(plOut) >= 2
        /\ plOut[Len(plOut) - 1] = CURSOR_SHOW
        /\ plOut[Len(plOut)] = RESET

\* print(frame) raised after a frame was shown, and play was left restored
C28_Witness ==
    /\ PlayEnded
    /\ plWay = "UnicodeEncodeError"
    /\ plArgs.frames = <<"frame a", "unencodable">>
    /\ LastOf(PlayFrames) > LastOf({CURSOR_HIDE})
    /\ LastOf({CURSOR_HIDE}) = 1

\* Ctrl-C between two frames: the handler and the finally clause both clean up
C28_SigintWitness ==
    /\ PlayEnded
    /\ plWay = "SystemExit"
    /\ LastOf(PlayFrames) > 0
    /\ Cardinality({k \in 1..Len(plOut) : plOut[k] = CURSOR_SHOW}) = 2

IsFrame(item) == item \in PlayFrames

\* the frames shown so far, and the frames and sleeps so far
FramesShown == SelectSeq(plOut, IsFrame)

IsFrameOrSleep(item) == item \in PlayFrames \cup {"sleep"}

Paced == SelectSeq(plOut, IsFrameOrSleep)

PlaysInOrder ==
    \* frames come in index order, pass after pass, each followed by a sleep
    /\ \A k \in 1..Len(FramesShown) :
           FramesShown[k] = plArgs.frames[((k - 1) % Len(plArgs.frames)) + 1]
    /\ \A k \in 1..Len(Paced) : (Paced[k] = "sleep") <=> (k % 2 = 0)
    \* without loop no frame is shown twice
    /\ ~plArgs.loop => Len(FramesShown) <= Len(plArgs.frames)
    \* a flag set before the call: nothing is shown
    /\ plArgs.interrupted => FramesShown = <<>>
    \* an undisturbed run without loop has shown and slept every frame
    /\ (PlayEnded /\ ~plArgs.loop /\ ~plFlag /\ plWay = "return") =>
           /\ FramesShown = plArgs.frames
           /\ Len(Paced) = 2 * Len(plArgs.frames)
    \* with loop, play returns only when the flag is set
    /\ (PlayEnded /\ plArgs.loop /\ plWay = "return") => plFlag

\* C29: without loop play shows every frame once, in index order, sleeps
\* after each and then ends (at once for no frames); with loop it shows the
\* frames in the same order pass after pass and returns only when
\* interrupted; with the flag set before the call no frame is shown.
C29_PlaysFramesInOrder ==
    /\ []PlaysInOrder
    /\ (~plArgs.loop /\ plPc.at # "idle") ~> PlayEnded

\* both frames of a player were shown once, with the progress bar, and play returned
C29_Witness ==
    /\ PlayEnded
    /\ plWay = "return"
    /\ ~plFlag
    /\ ~plArgs.loop
    /\ plArgs.progress
    /\ FramesShown = <<"frame a", "frame b">>
    /\ Len(Paced) = 4

\* the second pass of a looping player
C29_LoopWitness ==
    /\ plArgs.loop
    /\ plPc.pass = 2
    /\ FramesShown = <<"frame a", "frame b", "frame a", "frame b">>

\* C30: render_ascii_frame never raises: for every frame shape, a visible
\* width of 0 included, it returns early or writes an image.
C30_RenderNeverRaises == rndPc # "raised"

\* what holds instead: the division by base_width at line 198 raises for
\* exactly the frames of visible width 0, before anything is written; every
\* other frame has base_width > 0, and base_height is never 0
C30_RaisesExactlyForWidthZero ==
    /\ rndPc = "raised" => rndIn.shape.max_width = 0 /\ IsNone(rndImage)
    /\ rndPc \in {"even", "limit", "save", "done"} => rndIn.shape.max_width > 0
    /\ rndPc \notin {"idle", "measure"} => rndDim.base_height > 0

====
